---- MODULE Spec2Model ----
(***************************************************************************)
(* A model of eterm's session and wire protocol layer.                     *)
(*                                                                         *)
(*  - SpecTransport: the framed transport of eterm/src/lib.rs at the byte  *)
(*    level: one TcpEndpoint writing with send_packet, one TcpEndpoint     *)
(*    reading with try_receive_packet, and the TCP stream between them.    *)
(*  - SpecServer (further down): the host session table of                 *)
(*    eterm/src/server.rs at the message level; FairSpecServer is the same *)
(*    with a calling thread that keeps running.                            *)
(***************************************************************************)
EXTENDS Integers, Sequences, FiniteSets, TLC

VARIABLES
    \* ---- framed transport (lib.rs) ----
    pipe,       \* bytes written to the writer's socket, not yet at the reader
    rxbuf,      \* bytes in the reader's socket, not yet consumed
    rxstate,    \* the reader's socket: "open", "eof" (peer closed) or "reset"
    tx,         \* the writer's endpoint: "open", or "failed" once send_packet returned
                \* Err, and the would-block results its socket gave so far
    sendLog,    \* payloads of the send_packet calls that returned Ok, in order
    recvLog,    \* payloads returned by try_receive_packet, in order
    ret,        \* what the step just taken returned, if it was a call's return
    foreign,    \* TRUE once the peer wrote raw bytes instead of calling send_packet
    \* ---- host session table (server.rs) ----
    clients,                  \* Server.clients: the sessions, by remote address
    next_client_id,           \* Server.next_client_id
    minimum_update_interval,  \* Server.minimum_update_interval, in seconds
    listener,                 \* connections the listener has not accepted yet
    sock,                     \* per address, the socket its session holds
    connects,                 \* per address, the connections it has made so far
    now,                      \* the clock, in seconds
    pc,                       \* where the thread calling Server::show is
    todo,                     \* the sessions show_dyn's loop has not ticked yet
    writing,                  \* the send a session's tick is in the middle of
    sent,                     \* per address, the messages handed to send_message: of
                              \* each its type, its frame_index and the connection
                              \* it went to
    frame_time,               \* per address, when the last Frame was written to its
                              \* socket, as far as SpecSession watches the ticks
    resumed,                  \* per address, whether the connection its session holds
                              \* was accepted after Client::disconnect ended the last
    last_render,              \* per address, the last tick of its session that ran
                              \* egui, as far as SpecSession watches the ticks
    stamp,                    \* how many Inputs the viewer has posted, as far as
                              \* SpecInputs numbers them: the n-th carries the event n
                              \* and the client_time n
    arrived,                  \* the numbers of the Inputs the viewer's session has
                              \* received since its last render, in SpecInputs
    retick,                   \* whether the last render of the viewer's session asked
                              \* for a repaint and no tick of it came since, in
                              \* SpecInputs
    discarded,                \* the client_times the viewer's session has taken at
                              \* a render that sent no Frame, in SpecInputs
    shown                     \* what the step just taken did, if it was a tick that
                              \* SpecSession watches: whose, what the session held
                              \* before, whether it rendered, what egui returned and
                              \* whether a Frame was handed to send_message
VARIABLES
    \* ---- the viewer (client.rs) ----
    alive,                    \* Client.alive, the shutdown flag
    connected,                \* Client.connected, what is_connected() loads
    owner,                    \* the application's Client value: "live", or how far
                              \* its drop has come ("dropping" after Drop::drop,
                              \* "no_sender" once outgoing_msg_tx is dropped, "gone"
                              \* once incoming_msg_rx is dropped too)
    outgoing_msg,             \* the channel outgoing_msg_tx -> outgoing_msg_rx
    incoming_msg,             \* the channel incoming_msg_tx -> incoming_msg_rx
    worker,                   \* where the spawned thread stands
    tcp_stream,               \* the worker's socket: rx the whole packets the host
                              \* has written and the worker has not read, rd and wr
                              \* the state of its two directions
    sending,                  \* the message send_message is writing, if any
    attempts,                 \* successful TcpStream::connect calls so far
    inputs,                   \* send_input calls so far; the n-th queues message n
    host_msgs,                \* packets the host has written so far, on all
                              \* connections; the n-th is packet n
    wire,                     \* what the worker has written on this connection
    forwarded,                \* what the worker has put on incoming_msg during this
                              \* connection
    last_exit,                \* why run returned the last time
    observed                  \* whether the worker has seen the shutdown

tvars == <<pipe, rxbuf, rxstate, tx, sendLog, recvLog, ret, foreign>>
svars == <<clients, next_client_id, minimum_update_interval, listener, sock, connects,
           now, pc, todo, writing, sent, frame_time, resumed,
           last_render, shown, stamp, arrived, retick, discarded>>
VARIABLES
    \* ---- the viewer's application side and its telemetry (client.rs) ----
    clock,                    \* now(), in seconds
    lock,                     \* who holds the mutex of bandwidth_history: "free",
                              \* "worker" or "app"
    app_at,                   \* where the application thread stands: "idle" between
                              \* calls, or inside update or bytes_per_second
    held,                     \* the packet the worker has taken off its socket and
                              \* not yet decoded, when its steps are taken one by one
    bandwidth_history,        \* the values added to each History, oldest first
    latency_history,
    frame_history,
    flushed,                  \* per History, when client.rs last called flush on it
    font_definitions,         \* Client.font_definitions: the number of the Fonts
                              \* message it came with, 0 for the default
    latest_frame,             \* Client.latest_frame
    returned,                 \* what the last call of update returned
    probe                     \* the History read last, "" once the application has
                              \* moved on or the clock has

cvars == <<alive, connected, owner, outgoing_msg, incoming_msg, worker, tcp_stream,
           sending, attempts, inputs, host_msgs, wire, forwarded, last_exit, observed>>
avars == <<clock, lock, app_at, held, bandwidth_history, latency_history, frame_history,
           flushed, font_definitions, latest_frame, returned, probe>>
vars == <<tvars, svars, cvars, avars>>

-----------------------------------------------------------------------------
(* Bounds of the model.                                                    *)

\* send_packet calls per connection
MaxPackets == 2
\* would-block results of the writer's socket per connection
MaxRetries == 1
\* bytes arrive one at a time through the header and this many payload bytes
SmallPayload == 3
\* Frames per session
MaxFrames == 2
\* connections per remote address
MaxConnects == 2
\* seconds on the clock
MaxTime == 1
\* messages waiting in a socket, and events waiting in a session's input
MaxInbox == 1
\* Inputs the viewer posts to its session when they are numbered
MaxStamps == 2
\* send_input calls of the application
MaxInputs == 2
\* packets the host writes to the viewer
MaxHostMsgs == 2
\* successful connects of the viewer's worker
MaxAttempts == 2
\* seconds on the viewer's clock
MaxClock == 1

-----------------------------------------------------------------------------
(* Byte strings.  A byte string is kept in run-length form, a sequence of  *)
(* runs [b, n] (n > 0 times the byte b, adjacent runs of different bytes), *)
(* so that a 32 MB payload is one run.  Every operator below is the        *)
(* operation on the byte string the runs stand for.                        *)

Run(b, n) == [b |-> b, n |-> n]

RECURSIVE BLen(_)
BLen(s) == IF s = <<>> THEN 0 ELSE Head(s).n + BLen(Tail(s))

BCat(s, t) ==
    IF s = <<>> THEN t
    ELSE IF t = <<>> THEN s
    ELSE LET l == s[Len(s)]
             f == t[1]
         IN  IF l.b = f.b
             THEN SubSeq(s, 1, Len(s) - 1) \o <<Run(l.b, l.n + f.n)>> \o Tail(t)
             ELSE s \o t

RECURSIVE BTake(_, _)
BTake(s, k) ==
    IF k <= 0 \/ s = <<>> THEN <<>>
    ELSE IF Head(s).n <= k
         THEN BCat(<<Head(s)>>, BTake(Tail(s), k - Head(s).n))
         ELSE <<Run(Head(s).b, k)>>

RECURSIVE BDrop(_, _)
BDrop(s, k) ==
    IF k <= 0 \/ s = <<>> THEN s
    ELSE IF Head(s).n <= k
         THEN BDrop(Tail(s), k - Head(s).n)
         ELSE <<Run(Head(s).b, Head(s).n - k)>> \o Tail(s)

\* the run-length form of an explicit sequence of bytes
RECURSIVE FromBytes(_)
FromBytes(q) == IF q = <<>> THEN <<>> ELSE BCat(<<Run(Head(q), 1)>>, FromBytes(Tail(q)))

\* the explicit sequence of bytes of a (short) byte string
RECURSIVE ToBytes(_)
ToBytes(s) ==
    IF s = <<>> THEN <<>>
    ELSE <<Head(s).b>> \o ToBytes(BDrop(s, 1))

\* n times the byte b
Fill(b, n) == IF n = 0 THEN <<>> ELSE <<Run(b, n)>>

-----------------------------------------------------------------------------
(* The wire format: PROTOCOL_HEADER (b"eterm", major, minor, patch), the   *)
(* payload length as u32 little-endian, the payload.                       *)

PROTOCOL_HEADER == <<101, 116, 101, 114, 109, 0, 0, 1>>

\* header.len(): the 8 bytes of PROTOCOL_HEADER and the 4 of the length
HeaderLen == 12

\* the length above which a packet is refused
MaxPacketLength == 32000000

\* (packet.len() as u32).to_le_bytes().  The checker's integers end at 2^31 - 1,
\* so every length of the model is below 2^31 and `as u32` keeps its value.
to_le_bytes(n) ==
    <<n % 256, (n \div 256) % 256, (n \div 65536) % 256, (n \div 16777216) % 256>>

\* u32::from_le_bytes(..) as usize.  A value of 2^31 or more is kept as 2^31 - 1:
\* it is on the same side of the one comparison the code makes with it (the
\* ceiling) and never reaches the arithmetic behind that comparison.
from_le_bytes(q) ==
    IF q[4] >= 128 THEN 2147483647
    ELSE q[1] + 256 * q[2] + 65536 * q[3] + 16777216 * q[4]

-----------------------------------------------------------------------------
(* TcpEndpoint::try_receive_packet                                         *)

\* TcpStream::peek on a non-blocking socket, into a buffer of n bytes
peek(buf, st, n) ==
    IF st = "reset" THEN [kind |-> "err", data |-> <<>>]
    ELSE IF buf = <<>>
         THEN IF st = "eof" THEN [kind |-> "ok", data |-> <<>>]
                            ELSE [kind |-> "wouldblock", data |-> <<>>]
         ELSE [kind |-> "ok", data |-> BTake(buf, n)]

\* the three checks of a complete header (as explicit bytes), in the code's order
validate_header_VersionFirst(header) ==
    LET protocol == SubSeq(header, 1, Len(PROTOCOL_HEADER))
        length   == from_le_bytes(SubSeq(header, Len(PROTOCOL_HEADER) + 1, HeaderLen))
    IN  IF protocol # PROTOCOL_HEADER THEN "VersionMismatch"
        ELSE IF SubSeq(protocol, 1, 5) # SubSeq(PROTOCOL_HEADER, 1, 5) THEN "NotEterm"
        ELSE IF length > MaxPacketLength THEN "Oversized"
        ELSE "ok"

validate_header_LengthFirst(header) ==
    LET protocol == SubSeq(header, 1, Len(PROTOCOL_HEADER))
        length   == from_le_bytes(SubSeq(header, Len(PROTOCOL_HEADER) + 1, HeaderLen))
    IN  IF SubSeq(protocol, 1, 5) # SubSeq(PROTOCOL_HEADER, 1, 5) THEN "NotEterm"
        ELSE IF length > MaxPacketLength THEN "Oversized"
        ELSE IF protocol # PROTOCOL_HEADER THEN "VersionMismatch"
        ELSE "ok"

validate_header_Ge(header) ==
    LET protocol == SubSeq(header, 1, Len(PROTOCOL_HEADER))
        length   == from_le_bytes(SubSeq(header, Len(PROTOCOL_HEADER) + 1, HeaderLen))
    IN  IF SubSeq(protocol, 1, 5) # SubSeq(PROTOCOL_HEADER, 1, 5) THEN "NotEterm"
        ELSE IF protocol # PROTOCOL_HEADER THEN "VersionMismatch"
        ELSE IF length >= MaxPacketLength THEN "Oversized"
        ELSE "ok"

validate_header(header) ==
    LET protocol == SubSeq(header, 1, Len(PROTOCOL_HEADER))
        length   == from_le_bytes(SubSeq(header, Len(PROTOCOL_HEADER) + 1, HeaderLen))
    IN  IF SubSeq(protocol, 1, 5) # SubSeq(PROTOCOL_HEADER, 1, 5) THEN "NotEterm"
        ELSE IF protocol # PROTOCOL_HEADER THEN "VersionMismatch"
        ELSE IF length > MaxPacketLength THEN "Oversized"
        ELSE "ok"

\* a result of try_receive_packet: Ok(None), Ok(Some(packet)) or Err(err), and
\* what is left in the socket
RecvNone(buf)        == [kind |-> "None", err |-> "", packet |-> <<>>, rest |-> buf]
RecvSome(packet, buf) == [kind |-> "Some", err |-> "", packet |-> packet, rest |-> buf]
RecvErr(err, buf)    == [kind |-> "Err", err |-> err, packet |-> <<>>, rest |-> buf]

\* a reader that takes the header off the stream before the payload is there
try_receive_packet_EagerHeader(buf, st) ==
    LET h == peek(buf, st, HeaderLen)
    IN  IF h.kind = "err" THEN RecvErr("io", buf)
        ELSE IF h.kind = "wouldblock" \/ BLen(h.data) # HeaderLen THEN RecvNone(buf)
        ELSE LET header == ToBytes(h.data)
                 length == from_le_bytes(SubSeq(header, Len(PROTOCOL_HEADER) + 1, HeaderLen))
                 check  == validate_header(header)
             IN  IF check # "ok" THEN RecvErr(check, buf)
                 ELSE IF BLen(buf) < HeaderLen + length
                      THEN RecvNone(BDrop(buf, HeaderLen))
                      ELSE RecvSome(BDrop(BTake(buf, HeaderLen + length), HeaderLen),
                                    BDrop(buf, HeaderLen + length))

try_receive_packet(buf, st) ==
    LET h == peek(buf, st, HeaderLen)
    IN  IF h.kind = "err" THEN RecvErr("io", buf)
        ELSE IF h.kind = "wouldblock" \/ BLen(h.data) # HeaderLen THEN RecvNone(buf)
        ELSE LET header == ToBytes(h.data)
                 length == from_le_bytes(SubSeq(header, Len(PROTOCOL_HEADER) + 1, HeaderLen))
                 check  == validate_header(header)
             IN  IF check # "ok" THEN RecvErr(check, buf)
                 ELSE LET p == peek(buf, st, HeaderLen + length)
                      IN  IF p.kind = "err" THEN RecvErr("io", buf)
                          ELSE IF p.kind = "wouldblock" THEN RecvNone(buf)
                          ELSE IF BLen(p.data) # HeaderLen + length THEN RecvNone(buf)
                          ELSE \* read_exact consumes what was peeked
                               RecvSome(BDrop(p.data, HeaderLen),
                                        BDrop(buf, HeaderLen + length))

-----------------------------------------------------------------------------
(* TcpEndpoint::send_packet and TcpEndpoint::write_all_with_retry          *)

\* the three chunks send_packet writes, in order
Chunk(packet, i) ==
    CASE i = 1 -> FromBytes(PROTOCOL_HEADER)
      [] i = 2 -> FromBytes(to_le_bytes(BLen(packet)))
      [] OTHER -> packet

\* what send_packet is to put on the stream for a packet
Frame(packet) == BCat(BCat(Chunk(packet, 1), Chunk(packet, 2)), Chunk(packet, 3))

NoRet == [op |-> "-", kind |-> "", err |-> "", consumed |-> 0, packet |-> <<>>, out |-> <<>>]

\* the payloads handed to send_packet
Payloads == { <<>>, FromBytes(<<7, 7>>) }

\* TcpStream::write_all(chunk) on a non-blocking socket writes until the chunk is
\* through or a write fails; when the socket reports would-block after k bytes it
\* returns that error, and the k bytes stay written.  These are the k's explored.
Partials(chunk) == { k \in {0, 1} : k < BLen(chunk) }

\* the would-block histories of one write_all_with_retry call: for each failed
\* turn of the loop, the bytes write_all had written when it got would-block
RECURSIVE Blocks(_, _)
Blocks(chunk, n) ==
    IF n = 0 THEN { <<>> }
    ELSE Blocks(chunk, n - 1) \cup
         { Append(ks, k) : ks \in { q \in Blocks(chunk, n - 1) : Len(q) = n - 1 },
                           k \in Partials(chunk) }

\* write_all_with_retry(chunk) under the would-block history ks: what it puts on
\* the stream before it returns Ok.  A turn that fails with would-block sleeps and
\* the next turn calls write_all with the whole chunk again.
RECURSIVE write_all_with_retry(_, _)
write_all_with_retry(chunk, ks) ==
    IF ks = <<>> THEN chunk
    ELSE BCat(BTake(chunk, Head(ks)), write_all_with_retry(chunk, Tail(ks)))

\* send_packet(packet) under the would-block histories b = <<b1, b2, b3>> of its
\* three write_all_with_retry calls: what it puts on the stream
send_packet(packet, b) ==
    BCat(BCat(write_all_with_retry(Chunk(packet, 1), b[1]),
              write_all_with_retry(Chunk(packet, 2), b[2])),
         write_all_with_retry(Chunk(packet, 3), b[3]))

NBlocks(b) == Len(b[1]) + Len(b[2]) + Len(b[3])

Histories(packet, n) ==
    { b \in Blocks(Chunk(packet, 1), n) \X Blocks(Chunk(packet, 2), n)
            \X Blocks(Chunk(packet, 3), n) : NBlocks(b) <= n }

\* a send_packet call that returns Ok
SendPacket ==
    /\ tx.state = "open"
    /\ ~foreign
    /\ rxstate = "open"
    /\ Len(sendLog) < MaxPackets
    /\ \E packet \in Payloads :
         \E b \in Histories(packet, MaxRetries - tx.blocks) :
            LET out == send_packet(packet, b)
            IN  /\ pipe' = BCat(pipe, out)
                /\ ret' = [NoRet EXCEPT !.op = "send", !.kind = "Ok",
                                        !.packet = packet, !.out = out]
                /\ sendLog' = Append(sendLog, packet)
                /\ tx' = [tx EXCEPT !.blocks = tx.blocks + NBlocks(b)]
    /\ UNCHANGED <<rxbuf, rxstate, recvLog, foreign, svars, cvars, avars>>

\* a send_packet call that returns Err: the write of chunk i fails, after k bytes,
\* with an error that is not would-block
SendPacketError ==
    /\ tx.state = "open"
    /\ ~foreign
    /\ rxstate = "open"
    /\ Len(sendLog) < MaxPackets
    /\ \E packet \in Payloads, i \in 1..3 :
         \E k \in Partials(Chunk(packet, i)) :
            LET before == CASE i = 1 -> <<>>
                            [] i = 2 -> Chunk(packet, 1)
                            [] OTHER -> BCat(Chunk(packet, 1), Chunk(packet, 2))
                out == BCat(before, BTake(Chunk(packet, i), k))
            IN  /\ pipe' = BCat(pipe, out)
                /\ ret' = [NoRet EXCEPT !.op = "send", !.kind = "Err", !.err = "io",
                                        !.packet = packet, !.out = out]
    /\ tx' = [tx EXCEPT !.state = "failed"]
    /\ UNCHANGED <<rxbuf, rxstate, sendLog, recvLog, foreign, svars, cvars, avars>>

-----------------------------------------------------------------------------
(* The stream and the peer.                                                *)

\* the next k bytes of the stream reach the reader's socket: one byte, or all
\* that is under way, or all but the last byte
Arrive ==
    /\ rxstate = "open"
    /\ pipe # <<>>
    /\ \E k \in {1, BLen(pipe) - 1, BLen(pipe)} :
         /\ k >= 1
         /\ \/ k = 1 /\ BLen(rxbuf) < HeaderLen + SmallPayload
            \/ k >= BLen(pipe) - 1
         /\ rxbuf' = BCat(rxbuf, BTake(pipe, k))
         /\ pipe' = BDrop(pipe, k)
    /\ ret' = NoRet
    /\ UNCHANGED <<rxstate, tx, sendLog, recvLog, foreign, svars, cvars, avars>>

\* the writer closes its socket; the reader sees end-of-stream after the data
PeerClose ==
    /\ rxstate = "open"
    /\ pipe = <<>>
    /\ rxstate' = "eof"
    /\ ret' = NoRet
    /\ UNCHANGED <<pipe, rxbuf, tx, sendLog, recvLog, foreign, svars, cvars, avars>>

\* the connection is reset
PeerReset ==
    /\ rxstate = "open"
    /\ rxstate' = "reset"
    /\ ret' = NoRet
    /\ UNCHANGED <<pipe, rxbuf, tx, sendLog, recvLog, foreign, svars, cvars, avars>>

\* what a peer may put first on a new connection when it writes the bytes itself
RawMagics == { <<101, 116, 101, 114, 109>>, <<120, 116, 101, 114, 109>>,
               <<101, 116, 101, 114, 110>> }
RawVersions == { <<0, 0, 1>>, <<1, 0, 1>>, <<0, 1, 1>>, <<0, 0, 2>> }
RawLengths == { 0, 2, MaxPacketLength, MaxPacketLength + 1, 2000000000 }

RawWrite ==
    /\ ~foreign
    /\ tx.state = "open"
    /\ rxstate = "open"
    /\ sendLog = <<>>
    /\ pipe = <<>> /\ rxbuf = <<>>
    /\ \E magic \in RawMagics, version \in RawVersions, length \in RawLengths :
         \E body \in {0, length - 1, length} :
            /\ body >= 0
            /\ pipe' = BCat(FromBytes(magic \o version \o to_le_bytes(length)),
                            Fill(7, body))
    /\ foreign' = TRUE
    /\ ret' = NoRet
    /\ UNCHANGED <<rxbuf, rxstate, tx, sendLog, recvLog, svars, cvars, avars>>

\* one call of try_receive_packet by the reader
TryReceivePacket ==
    LET r == try_receive_packet(rxbuf, rxstate)
    IN  /\ rxbuf' = r.rest
        /\ recvLog' = IF r.kind = "Some" THEN Append(recvLog, r.packet) ELSE recvLog
        /\ ret' = [NoRet EXCEPT !.op = "recv", !.kind = r.kind, !.err = r.err,
                                !.packet = r.packet,
                                !.consumed = BLen(rxbuf) - BLen(r.rest)]
        /\ UNCHANGED <<pipe, rxstate, tx, sendLog, foreign, svars, cvars, avars>>

-----------------------------------------------------------------------------
(* The host session table: Server and Client of server.rs, at the level of *)
(* messages.  A socket is what its peer sent and has not been read yet     *)
(* (rx), whether reading still works (rd) and whether writing does (wr).   *)

\* The viewers.  The sessions do not share state, so one viewer is given every
\* behaviour (it sends, stalls, breaks its connection and comes back) and the
\* other only connects once and shows a still picture.
Addrs == {"a", "b"}
Unreliable == {"a"}

\* Option<T>: None, Some(x)
None == <<>>
Some(x) == <<x>>

\* egui's side of the tick is a black box: CtxRef::run leaves its mark on the
\* context ("default" before the first run, "used" after) and hands back an
\* output and shapes
Outputs   == {"default", "effect"}
Shapes    == { <<>>, <<"rect">> }
UiResults == [output : Outputs, shapes : Shapes, needs_repaint : BOOLEAN]
StillPicture == [output |-> "default", shapes |-> <<"rect">>,
                 needs_repaint |-> FALSE]
\* what do_ui(egui_ctx, client_id) may draw for the session of an address
UiResultsOf(addr) == IF addr \in Unreliable THEN UiResults ELSE {StillPicture}

NewSock == [rx |-> <<>>, rd |-> "ok", wr |-> "ok"]

\* the messages a viewer may put on its connection; "Bad" is anything whose
\* header, version or encoding the host refuses
Messages(t) ==
    { [type |-> "Input", raw_input |-> <<"ev">>, client_time |-> t],
      [type |-> "Goodbye", raw_input |-> <<>>, client_time |-> 0],
      [type |-> "Bad", raw_input |-> <<>>, client_time |-> 0] }

\* the Client a first connection from addr creates (start_time, which only feeds
\* the time stamped on the input handed to egui, is left out)
NewClient(client_id, addr) ==
    [ client_id    |-> client_id,
      addr         |-> addr,
      tcp_endpoint |-> None,
      frame_index  |-> 0,
      egui_ctx     |-> "default",
      input        |-> None,
      client_time  |-> None,
      last_update  |-> None,
      last_visuals |-> <<>> ]

\* accept that makes a new Client for every connection, known address or not
accept_Replace(st, conn) ==
    [ clients |-> [x \in DOMAIN st.clients \cup {conn.addr} |->
                     IF x = conn.addr
                     THEN [NewClient(st.next_client_id, conn.addr)
                             EXCEPT !.tcp_endpoint = Some(conn.n)]
                     ELSE st.clients[x]],
      next_client_id |-> st.next_client_id + 1 ]

\* accept that enters every connection as a new identity: a known address
\* keeps its fields but takes the next ClientId
accept_Renumber(st, conn) ==
    LET known == conn.addr \in DOMAIN st.clients
        cs == [x \in DOMAIN st.clients \cup {conn.addr} |->
                 IF x = conn.addr /\ ~known
                 THEN NewClient(st.next_client_id, conn.addr)
                 ELSE st.clients[x]]
    IN  [ clients |-> [cs EXCEPT ![conn.addr].tcp_endpoint = Some(conn.n),
                                 ![conn.addr].client_id = st.next_client_id],
          next_client_id |-> st.next_client_id + 1 ]

\* one turn of accept_new_clients' loop for an accepted connection conn:
\* clients.entry(addr).or_insert_with(..), then client.tcp_endpoint = Some(..)
accept(st, conn) ==
    LET known == conn.addr \in DOMAIN st.clients
        cs == [x \in DOMAIN st.clients \cup {conn.addr} |->
                 IF x = conn.addr /\ ~known
                 THEN NewClient(st.next_client_id, conn.addr)
                 ELSE st.clients[x]]
    IN  [ clients |-> [cs EXCEPT ![conn.addr].tcp_endpoint = Some(conn.n)],
          next_client_id |-> IF known THEN st.next_client_id ELSE st.next_client_id + 1 ]

\* Server::accept_new_clients: the loop, until the listener reports would-block
RECURSIVE accept_new_clients(_, _)
accept_new_clients(st, pending) ==
    IF pending = <<>> THEN st
    ELSE accept_new_clients(accept(st, Head(pending)), Tail(pending))

\* a disconnect that starts the session afresh: nothing pending is kept
disconnect_ClearsPending(c) ==
    [c EXCEPT !.tcp_endpoint = None, !.last_visuals = <<>>, !.input = None,
              !.client_time = None]

\* a disconnect that also drops the pending input, and leaves its client_time
disconnect_ClearsInput(c) ==
    [c EXCEPT !.tcp_endpoint = None, !.last_visuals = <<>>, !.input = None]

\* Client::disconnect
disconnect(c) == [c EXCEPT !.tcp_endpoint = None, !.last_visuals = <<>>]

\* an input that replaces what is pending
input_Replace(c, new_input) == [c EXCEPT !.input = Some(new_input)]

\* Client::input
input(c, new_input) ==
    IF c.input = None THEN [c EXCEPT !.input = Some(new_input)]
    ELSE [c EXCEPT !.input = Some(c.input[1] \o new_input)]

\* TcpEndpoint::try_receive_message on the socket s
try_receive_message(s) ==
    IF s.rd = "reset" THEN [kind |-> "Err"]
    ELSE IF s.rx = <<>> THEN [kind |-> "None"]
    ELSE IF Head(s.rx).type = "Bad" THEN [kind |-> "Err"]
    ELSE [kind |-> "Some"]

\* a try_receive that reads on after a Goodbye and disconnects at the end
RECURSIVE client_try_receive_ReadOn(_, _)
client_try_receive_ReadOn(c, s) ==
    IF c.tcp_endpoint = None THEN [c |-> c, s |-> s]
    ELSE LET r == try_receive_message(s)
         IN  IF r.kind = "None" THEN [c |-> c, s |-> s]
             ELSE IF r.kind = "Err" THEN [c |-> disconnect(c), s |-> s]
             ELSE LET message == Head(s.rx)
                      s2 == [s EXCEPT !.rx = Tail(s.rx)]
                  IN  IF message.type = "Input"
                      THEN client_try_receive_ReadOn(
                               [input(c, message.raw_input)
                                  EXCEPT !.client_time = Some(message.client_time)], s2)
                      ELSE LET after == client_try_receive_ReadOn(c, s2)
                           IN  [c |-> disconnect(after.c), s |-> after.s]

\* Client::try_receive: the loop; gives the client and its socket afterwards
RECURSIVE client_try_receive(_, _)
client_try_receive(c, s) ==
    IF c.tcp_endpoint = None THEN [c |-> c, s |-> s]
    ELSE LET r == try_receive_message(s)
         IN  IF r.kind = "None" THEN [c |-> c, s |-> s]
             ELSE IF r.kind = "Err" THEN [c |-> disconnect(c), s |-> s]
             ELSE LET message == Head(s.rx)
                      s2 == [s EXCEPT !.rx = Tail(s.rx)]
                  IN  IF message.type = "Input"
                      THEN client_try_receive(
                               [input(c, message.raw_input)
                                  EXCEPT !.client_time = Some(message.client_time)], s2)
                      ELSE [c |-> disconnect(c), s |-> s2]

\* a tick that sends a Frame without taking a new index
assign_frame_NoIncrement(c, shapes) == [c EXCEPT !.last_visuals = shapes]

\* a tick that leaves an index out with every Frame
assign_frame_Skip(c, shapes) == [c EXCEPT !.frame_index = @ + 2, !.last_visuals = shapes]

\* Client::show, the branch that sends: the Frame takes self.frame_index, the
\* counter moves on and the snapshot is replaced
assign_frame(c, shapes) == [c EXCEPT !.frame_index = @ + 1, !.last_visuals = shapes]

\* a tick that sends a Frame whenever it renders, changed or not
client_show_AlwaysSend(c, ui, t, interval) ==
    IF c.tcp_endpoint = None
    THEN [c |-> c, rendered |-> FALSE, frame |-> None]
    ELSE LET taken == [c EXCEPT !.client_time = None]
             due == c.last_update = None \/ t - c.last_update[1] > interval
         IN  IF c.input = None /\ ~due
             THEN [c |-> taken, rendered |-> FALSE, frame |-> None]
             ELSE [c |-> assign_frame([taken EXCEPT !.input = None, !.last_update = Some(t),
                                                    !.egui_ctx = "used"], ui.shapes),
                   rendered |-> TRUE,
                   frame |-> Some([ frame_index |-> c.frame_index,
                                    conn |-> c.tcp_endpoint[1],
                                    output |-> ui.output,
                                    clipped_net_shapes |-> ui.shapes,
                                    client_time |-> c.client_time ])]

\* a tick that leaves client_time with the session when it skips or suppresses
client_show_KeepTime(c, ui, t, interval) ==
    IF c.tcp_endpoint = None
    THEN [c |-> c, rendered |-> FALSE, frame |-> None]
    ELSE LET due == c.last_update = None \/ t - c.last_update[1] > interval
         IN  IF c.input = None /\ ~due
             THEN [c |-> c, rendered |-> FALSE, frame |-> None]
             ELSE LET run == [c EXCEPT !.input = None, !.last_update = Some(t),
                                       !.egui_ctx = "used"]
                  IN  IF ui.output = "default" /\ ui.shapes = c.last_visuals
                      THEN [c |-> run, rendered |-> TRUE, frame |-> None]
                      ELSE [c |-> assign_frame([run EXCEPT !.client_time = None], ui.shapes),
                            rendered |-> TRUE,
                            frame |-> Some([ frame_index |-> c.frame_index,
                                             conn |-> c.tcp_endpoint[1],
                                             output |-> ui.output,
                                             clipped_net_shapes |-> ui.shapes,
                                             client_time |-> c.client_time ])]

\* a tick that counts a suppressed Frame as sent: the index moves on
client_show_CountSuppressed(c, ui, t, interval) ==
    IF c.tcp_endpoint = None
    THEN [c |-> c, rendered |-> FALSE, frame |-> None]
    ELSE LET taken == [c EXCEPT !.client_time = None]
             due == c.last_update = None \/ t - c.last_update[1] > interval
         IN  IF c.input = None /\ ~due
             THEN [c |-> taken, rendered |-> FALSE, frame |-> None]
             ELSE LET run == [taken EXCEPT !.input = None, !.last_update = Some(t),
                                           !.egui_ctx = "used"]
                  IN  IF ui.output = "default" /\ ui.shapes = c.last_visuals
                      THEN [c |-> assign_frame(run, ui.shapes), rendered |-> TRUE,
                            frame |-> None]
                      ELSE [c |-> assign_frame(run, ui.shapes),
                            rendered |-> TRUE,
                            frame |-> Some([ frame_index |-> c.frame_index,
                                             conn |-> c.tcp_endpoint[1],
                                             output |-> ui.output,
                                             clipped_net_shapes |-> ui.shapes,
                                             client_time |-> c.client_time ])]

\* a tick without input that renders as soon as any time has passed
client_show_NoInterval(c, ui, t, interval) ==
    IF c.tcp_endpoint = None
    THEN [c |-> c, rendered |-> FALSE, frame |-> None]
    ELSE LET taken == [c EXCEPT !.client_time = None]
             due == c.last_update = None \/ t - c.last_update[1] >= interval
         IN  IF c.input = None /\ ~due
             THEN [c |-> taken, rendered |-> FALSE, frame |-> None]
             ELSE LET run == [taken EXCEPT !.input = None, !.last_update = Some(t),
                                           !.egui_ctx = "used"]
                  IN  IF ui.output = "default" /\ ui.shapes = c.last_visuals
                      THEN [c |-> run, rendered |-> TRUE, frame |-> None]
                      ELSE [c |-> assign_frame(run, ui.shapes),
                            rendered |-> TRUE,
                            frame |-> Some([ frame_index |-> c.frame_index,
                                             conn |-> c.tcp_endpoint[1],
                                             output |-> ui.output,
                                             clipped_net_shapes |-> ui.shapes,
                                             client_time |-> c.client_time ])]

\* a tick that runs the UI for a session without connection and sends nothing
client_show_TicksWithoutHandle(c, ui, t, interval) ==
    IF c.tcp_endpoint = None
    THEN [c |-> [c EXCEPT !.client_time = None, !.input = None, !.last_update = Some(t),
                          !.egui_ctx = "used"],
          rendered |-> TRUE, frame |-> None]
    ELSE LET client_time == c.client_time
             taken == [c EXCEPT !.client_time = None]
             due == c.last_update = None \/ t - c.last_update[1] > interval
         IN  IF c.input = None /\ ~due
             THEN [c |-> taken, rendered |-> FALSE, frame |-> None]
             ELSE LET run == [taken EXCEPT !.input = None, !.last_update = Some(t),
                                           !.egui_ctx = "used"]
                  IN  IF ui.output = "default" /\ ui.shapes = c.last_visuals
                      THEN [c |-> run, rendered |-> TRUE, frame |-> None]
                      ELSE [c |-> assign_frame(run, ui.shapes),
                            rendered |-> TRUE,
                            frame |-> Some([ frame_index |-> c.frame_index,
                                             conn |-> c.tcp_endpoint[1],
                                             output |-> ui.output,
                                             clipped_net_shapes |-> ui.shapes,
                                             client_time |-> client_time ])]

\* a tick that keeps the client_time for a later Frame when it sends none
client_show_KeepTimeWhenSuppressed(c, ui, t, interval) ==
    IF c.tcp_endpoint = None
    THEN [c |-> c, rendered |-> FALSE, frame |-> None]
    ELSE LET client_time == c.client_time
             taken == [c EXCEPT !.client_time = None]
             due == c.last_update = None \/ t - c.last_update[1] > interval
         IN  IF c.input = None /\ ~due
             THEN [c |-> taken, rendered |-> FALSE, frame |-> None]
             ELSE LET run == [taken EXCEPT !.input = None, !.last_update = Some(t),
                                           !.egui_ctx = "used"]
                  IN  IF ui.output = "default" /\ ui.shapes = c.last_visuals
                      THEN [c |-> [run EXCEPT !.client_time = client_time],
                            rendered |-> TRUE, frame |-> None]
                      ELSE [c |-> assign_frame(run, ui.shapes),
                            rendered |-> TRUE,
                            frame |-> Some([ frame_index |-> c.frame_index,
                                             conn |-> c.tcp_endpoint[1],
                                             output |-> ui.output,
                                             clipped_net_shapes |-> ui.shapes,
                                             client_time |-> client_time ])]

\* Client::show up to the call of send_message, for the result ui of egui's run
\* at time t: the client, whether it rendered, and the Frame to send if any
client_show(c, ui, t, interval) ==
    IF c.tcp_endpoint = None
    THEN [c |-> c, rendered |-> FALSE, frame |-> None]
    ELSE LET client_time == c.client_time
             taken == [c EXCEPT !.client_time = None]
             due == c.last_update = None \/ t - c.last_update[1] > interval
         IN  IF c.input = None /\ ~due
             THEN [c |-> taken, rendered |-> FALSE, frame |-> None]
             ELSE LET run == [taken EXCEPT !.input = None, !.last_update = Some(t),
                                           !.egui_ctx = "used"]
                  IN  IF ui.output = "default" /\ ui.shapes = c.last_visuals
                      THEN [c |-> run, rendered |-> TRUE, frame |-> None]
                      ELSE [c |-> assign_frame(run, ui.shapes),
                            rendered |-> TRUE,
                            frame |-> Some([ frame_index |-> c.frame_index,
                                             conn |-> c.tcp_endpoint[1],
                                             output |-> ui.output,
                                             clipped_net_shapes |-> ui.shapes,
                                             client_time |-> client_time ])]

\* a show that forgets the repaint request
after_send_Forget(c, rendered, needs_repaint) == c

\* Client::show after send_message: a repaint request becomes a pending input
after_send(c, rendered, needs_repaint) ==
    IF rendered /\ needs_repaint THEN [c EXCEPT !.input = Some(<<>>)] ELSE c

\* the socket of a session that holds none is closed
SockOf(c, s) == IF c.tcp_endpoint = None THEN NewSock ELSE s

NotWriting == [addr |-> "", needs_repaint |-> FALSE]

\* the step just taken was not a watched tick
NoShow == [addr |-> ""]

\* resumed, after a step that may have called Client::disconnect and left the
\* sessions as after
StillResumed(after) ==
    [x \in Addrs |-> resumed[x] /\ x \in DOMAIN after /\ after[x].tcp_endpoint # None]

\* Server::show_dyn, first call: accept_new_clients
AcceptNewClients ==
    /\ pc = "idle"
    /\ LET st == accept_new_clients([clients |-> clients, next_client_id |-> next_client_id],
                                    listener)
           accepted == { listener[i].addr : i \in 1..Len(listener) }
       IN  /\ clients' = st.clients
           /\ next_client_id' = st.next_client_id
           /\ sock' = [x \in Addrs |-> IF x \in accepted THEN NewSock ELSE sock[x]]
           /\ resumed' = [x \in Addrs |->
                            IF x \in accepted
                            THEN x \in DOMAIN clients /\ clients[x].tcp_endpoint = None
                            ELSE resumed[x]]
    /\ listener' = <<>>
    /\ pc' = "receive"
    /\ UNCHANGED <<minimum_update_interval, connects, now, todo, writing, sent, tvars, cvars, avars>>
    /\ shown' = NoShow
    /\ UNCHANGED <<frame_time, last_render, stamp, arrived, retick, discarded>>

\* a try_receive that gives up at the first session whose connection fails:
\* nobody is received from, and show returns without ticking anyone
TryReceive_StopAtError ==
    /\ pc = "receive"
    /\ LET failed == \E x \in DOMAIN clients :
                        /\ clients[x].tcp_endpoint # None
                        /\ client_try_receive(clients[x], sock[x]).c.tcp_endpoint = None
       IN  /\ clients' = [x \in DOMAIN clients |-> client_try_receive(clients[x], sock[x]).c]
           /\ sock' = [x \in Addrs |->
                         IF x \in DOMAIN clients
                         THEN LET r == client_try_receive(clients[x], sock[x]) IN SockOf(r.c, r.s)
                         ELSE sock[x]]
           /\ todo' = IF failed THEN {} ELSE DOMAIN clients
           /\ pc' = IF failed THEN "idle" ELSE "tick"
    /\ resumed' = StillResumed(clients')
    /\ UNCHANGED <<next_client_id, minimum_update_interval, listener, connects, now,
                   writing, sent, tvars, cvars, avars>>
    /\ shown' = NoShow
    /\ UNCHANGED <<frame_time, last_render, stamp, arrived, retick, discarded>>

\* Server::show_dyn, second call: Server::try_receive, over all clients
ReceiveAll ==
    /\ pc = "receive"
    /\ clients' = [x \in DOMAIN clients |-> client_try_receive(clients[x], sock[x]).c]
    /\ sock' = [x \in Addrs |->
                  IF x \in DOMAIN clients
                  THEN LET r == client_try_receive(clients[x], sock[x]) IN SockOf(r.c, r.s)
                  ELSE sock[x]]
    /\ resumed' = StillResumed(clients')
    /\ todo' = DOMAIN clients
    /\ pc' = "tick"
    /\ UNCHANGED <<next_client_id, minimum_update_interval, listener, connects, now,
                   writing, sent, tvars, cvars, avars>>

TryReceive ==
    /\ ReceiveAll
    /\ shown' = NoShow
    /\ UNCHANGED <<frame_time, last_render, stamp, arrived, retick, discarded>>

\* the Inputs at the head of what waits on a socket: what a session reads
\* before it finds nothing more, a Goodbye, or a message it refuses
RECURSIVE LeadingInputs(_)
LeadingInputs(rx) ==
    IF rx = <<>> \/ Head(rx).type # "Input" THEN <<>>
    ELSE <<Head(rx).client_time>> \o LeadingInputs(Tail(rx))

\* the same call of try_receive, with the Inputs the session of address a reads
\* noted in arrived
NotedTryReceive(a) ==
    /\ ReceiveAll
    /\ arrived' = IF a \in DOMAIN clients /\ clients[a].tcp_endpoint # None
                     /\ sock[a].rd # "reset"
                  THEN arrived \o LeadingInputs(sock[a].rx) ELSE arrived
    /\ shown' = NoShow
    /\ UNCHANGED <<frame_time, last_render, stamp, retick, discarded>>

\* one turn of show_dyn's loop over clients.values_mut(): Client::show for the
\* session of address a when egui's run gives ui, with send_message when the
\* socket takes the Frame or fails at once; when it reports would-block the
\* thread stays in the send
Show(a, ui) ==
    /\ pc = "tick"
    /\ a \in todo
    /\   LET r == client_show(clients[a], ui, now, minimum_update_interval)
             wr == sock[a].wr
         IN  /\ r.frame # None => clients[a].frame_index < MaxFrames
             /\ sent' = IF r.frame = None THEN sent
                        ELSE [sent EXCEPT ![a] = Append(@, [type |-> "Frame",
                                                             frame_index |-> r.frame[1].frame_index,
                                                             conn |-> r.frame[1].conn])]
             /\ IF r.frame # None /\ wr = "stalled"
                THEN /\ clients' = [clients EXCEPT ![a] = r.c]
                     /\ pc' = "write"
                     /\ writing' = [addr |-> a, needs_repaint |-> ui.needs_repaint]
                     /\ UNCHANGED sock
                ELSE LET c == IF r.frame # None /\ wr = "broken"
                              THEN disconnect(r.c) ELSE r.c
                     IN  /\ clients' = [clients EXCEPT
                                          ![a] = after_send(c, r.rendered, ui.needs_repaint)]
                         /\ sock' = [sock EXCEPT ![a] = SockOf(c, @)]
                         /\ UNCHANGED <<pc, writing>>
    /\ resumed' = StillResumed(clients')
    /\ todo' = todo \ {a}
    /\ UNCHANGED <<next_client_id, minimum_update_interval, listener, connects, now, tvars, cvars, avars>>

\* the tick of the session of address a, for whatever egui's run gives
ClientShow(a) ==
    /\ \E ui \in UiResultsOf(a) : Show(a, ui)
    /\ shown' = NoShow
    /\ UNCHANGED <<frame_time, last_render, stamp, arrived, retick, discarded>>

\* what a watched tick notes of itself for the next one
Rendered(a, ui, r) ==
    [ conn     |-> clients[a].tcp_endpoint,
      output   |-> ui.output,
      shapes   |-> ui.shapes,
      snapshot |-> clients[a].last_visuals,
      frame    |-> r.frame # None ]

\* the same tick, watched: shown, frame_time and last_render record it
WatchedShow(a) ==
    \E ui \in UiResultsOf(a) :
        LET r == client_show(clients[a], ui, now, minimum_update_interval)
        IN  /\ Show(a, ui)
            /\ shown' = [ addr        |-> a,
                          connected   |-> clients[a].tcp_endpoint # None,
                          had_input   |-> clients[a].input # None,
                          since_frame |-> IF frame_time[a] = None THEN None
                                          ELSE Some(now - frame_time[a][1]),
                          since_update |-> IF clients[a].last_update = None THEN None
                                           ELSE Some(now - clients[a].last_update[1]),
                          before      |-> last_render[a],
                          rendered    |-> r.rendered,
                          tick        |-> Rendered(a, ui, r) ]
            /\ frame_time' = IF r.frame # None /\ sock[a].wr = "ok"
                             THEN [frame_time EXCEPT ![a] = Some(now)]
                             ELSE frame_time
            /\ last_render' = IF r.rendered
                              THEN [last_render EXCEPT ![a] = Some(Rendered(a, ui, r))]
                              ELSE last_render
            /\ UNCHANGED <<stamp, arrived, retick, discarded>>

\* the same tick in SpecInputs: shown notes what is handed to egui's run (the
\* pending input, or a default one) and the client_time of the Frame, next to
\* what arrived and retick held before
NotedShow(a) ==
    \E ui \in UiResultsOf(a) :
        LET c == clients[a]
            r == client_show(c, ui, now, minimum_update_interval)
        IN  /\ Show(a, ui)
            /\ shown' = [ addr        |-> a,
                          connected   |-> c.tcp_endpoint # None,
                          rendered    |-> r.rendered,
                          input       |-> IF c.input = None THEN <<>> ELSE c.input[1],
                          frame       |-> r.frame # None,
                          client_time |-> IF r.frame = None THEN None
                                          ELSE r.frame[1].client_time,
                          since_update |-> IF c.last_update = None THEN None
                                           ELSE Some(now - c.last_update[1]),
                          arrived     |-> arrived,
                          retick      |-> retick ]
            /\ arrived' = IF r.rendered THEN <<>> ELSE arrived
            /\ retick' = IF c.tcp_endpoint = None THEN retick
                         ELSE r.rendered /\ ui.needs_repaint
            /\ discarded' = IF r.rendered /\ r.frame = None /\ c.client_time # None
                            THEN discarded \cup {c.client_time[1]} ELSE discarded
            /\ UNCHANGED <<frame_time, last_render, stamp>>

\* one turn of write_all_with_retry's loop inside a session's send_message
WriteTurn ==
    /\ pc = "write"
    /\ LET a == writing.addr
       IN  CASE sock[a].wr = "stalled" ->
                  /\ pc' = "sleep"
                  /\ UNCHANGED <<clients, sock, writing>>
             [] sock[a].wr = "ok" ->
                  /\ clients' = [clients EXCEPT
                                   ![a] = after_send(@, TRUE, writing.needs_repaint)]
                  /\ pc' = "tick"
                  /\ writing' = NotWriting
                  /\ UNCHANGED sock
             [] OTHER ->
                  /\ clients' = [clients EXCEPT
                                   ![a] = after_send(disconnect(@), TRUE, writing.needs_repaint)]
                  /\ sock' = [sock EXCEPT ![a] = NewSock]
                  /\ pc' = "tick"
                  /\ writing' = NotWriting
    /\ resumed' = StillResumed(clients')
    /\ UNCHANGED <<next_client_id, minimum_update_interval, listener, connects, now, todo,
                   sent, tvars, cvars, avars>>

WriteAttempt ==
    /\ WriteTurn
    /\ shown' = NoShow
    /\ UNCHANGED <<frame_time, last_render, stamp, arrived, retick, discarded>>

\* the same turn, watched: frame_time records a write that went through
WatchedWriteAttempt ==
    /\ WriteTurn
    /\ shown' = NoShow
    /\ frame_time' = IF sock[writing.addr].wr = "ok"
                     THEN [frame_time EXCEPT ![writing.addr] = Some(now)]
                     ELSE frame_time
    /\ UNCHANGED <<last_render, stamp, arrived, retick, discarded>>

\* std::thread::sleep(5 ms) of write_all_with_retry, then the next turn
Sleep ==
    /\ pc = "sleep"
    /\ pc' = "write"
    /\ UNCHANGED <<clients, next_client_id, minimum_update_interval, listener, sock, connects,
                   now, todo, writing, sent, resumed, tvars, cvars, avars>>
    /\ shown' = NoShow
    /\ UNCHANGED <<frame_time, last_render, stamp, arrived, retick, discarded>>

\* the sleeps of write_all_with_retry add up to a second
TickInSleep ==
    /\ pc = "sleep"
    /\ now < MaxTime
    /\ now' = now + 1
    /\ UNCHANGED <<clients, next_client_id, minimum_update_interval, listener, sock, connects,
                   pc, todo, writing, sent, resumed, tvars, cvars, avars>>
    /\ shown' = NoShow
    /\ UNCHANGED <<frame_time, last_render, stamp, arrived, retick, discarded>>

\* show_dyn's loop is through: Server::show returns Ok
ShowReturn ==
    /\ pc = "tick"
    /\ todo = {}
    /\ pc' = "idle"
    /\ UNCHANGED <<clients, next_client_id, minimum_update_interval, listener, sock, connects,
                   now, todo, writing, sent, resumed, tvars, cvars, avars>>
    /\ shown' = NoShow
    /\ UNCHANGED <<frame_time, last_render, stamp, arrived, retick, discarded>>

\* Server::set_minimum_update_interval, called between two calls of show
SetMinimumUpdateInterval(seconds) ==
    /\ pc = "idle"
    /\ seconds # minimum_update_interval
    /\ minimum_update_interval' = seconds
    /\ UNCHANGED <<clients, next_client_id, listener, sock, connects, now, pc, todo, writing,
                   sent, resumed, tvars, cvars, avars>>
    /\ shown' = NoShow
    /\ UNCHANGED <<frame_time, last_render, stamp, arrived, retick, discarded>>

\* --- the viewers and the network ---
\* The host looks at a socket at three places only (accept, try_receive, the write
\* of a Frame), so what a viewer does in between is placed at the nearest point
\* where the host can tell the difference.

Connected(a) == a \in DOMAIN clients /\ clients[a].tcp_endpoint # None

\* a viewer at address a connects
Connect(a) ==
    /\ pc = "idle"
    /\ connects[a] < (IF a \in Unreliable THEN MaxConnects ELSE 1)
    /\ \A i \in 1..Len(listener) : listener[i].addr # a
    /\ listener' = Append(listener, [addr |-> a, n |-> connects[a] + 1])
    /\ connects' = [connects EXCEPT ![a] = @ + 1]
    /\ UNCHANGED <<clients, next_client_id, minimum_update_interval, sock, now, pc, todo,
                   writing, sent, resumed, tvars, cvars, avars>>
    /\ shown' = NoShow
    /\ UNCHANGED <<frame_time, last_render, stamp, arrived, retick, discarded>>

PendingEvents(a) == IF clients[a].input = None THEN 0 ELSE Len(clients[a].input[1])

\* the viewer at address a puts a message on its connection; an Input's
\* client_time is the viewer's own stamp, here the number of the connection
PeerSend(a) ==
    /\ pc = "idle"
    /\ a \in Unreliable
    /\ Connected(a)
    /\ sock[a].rd = "ok"
    /\ Len(sock[a].rx) + PendingEvents(a) < MaxInbox
    /\ \E m \in Messages(connects[a]) : sock' = [sock EXCEPT ![a].rx = Append(@, m)]
    /\ UNCHANGED <<clients, next_client_id, minimum_update_interval, listener, connects, now,
                   pc, todo, writing, sent, resumed, tvars, cvars, avars>>
    /\ shown' = NoShow
    /\ UNCHANGED <<frame_time, last_render, stamp, arrived, retick, discarded>>

\* the viewer posts a numbered Input, or says Goodbye, whatever still waits
PeerPost(a) ==
    /\ pc = "idle"
    /\ a \in Unreliable
    /\ Connected(a)
    /\ sock[a].rd = "ok"
    /\ Len(sock[a].rx) < MaxStamps
    /\ \/ /\ stamp < MaxStamps
          /\ stamp' = stamp + 1
          /\ sock' = [sock EXCEPT ![a].rx =
                        Append(@, [type |-> "Input", raw_input |-> <<stamp + 1>>,
                                   client_time |-> stamp + 1])]
       \/ /\ sock' = [sock EXCEPT ![a].rx =
                        Append(@, [type |-> "Goodbye", raw_input |-> <<>>,
                                   client_time |-> 0])]
          /\ UNCHANGED stamp
    /\ UNCHANGED <<clients, next_client_id, minimum_update_interval, listener, connects, now,
                   pc, todo, writing, sent, resumed, tvars, cvars, avars>>
    /\ shown' = NoShow
    /\ UNCHANGED <<frame_time, last_render, arrived, retick, discarded>>

\* the connection of address a is reset: reads and writes fail from now on
SocketBreak(a) ==
    /\ a \in Unreliable
    /\ pc \in {"idle", "tick", "write"}
    /\ Connected(a)
    /\ sock[a].wr # "broken"
    /\ sock' = [sock EXCEPT ![a].rd = "reset", ![a].wr = "broken"]
    /\ UNCHANGED <<clients, next_client_id, minimum_update_interval, listener, connects, now,
                   pc, todo, writing, sent, resumed, tvars, cvars, avars>>
    /\ shown' = NoShow
    /\ UNCHANGED <<frame_time, last_render, stamp, arrived, retick, discarded>>

\* the viewer at address a stops reading: the host's socket fills up and every
\* write reports would-block
PeerStall(a) ==
    /\ a \in Unreliable
    /\ pc = "idle"
    /\ Connected(a)
    /\ sock[a].wr = "ok"
    /\ sock' = [sock EXCEPT ![a].wr = "stalled"]
    /\ UNCHANGED <<clients, next_client_id, minimum_update_interval, listener, connects, now,
                   pc, todo, writing, sent, resumed, tvars, cvars, avars>>
    /\ shown' = NoShow
    /\ UNCHANGED <<frame_time, last_render, stamp, arrived, retick, discarded>>

\* the viewer at address a reads again
PeerResume(a) ==
    /\ a \in Unreliable
    /\ pc \in {"idle", "write"}
    /\ Connected(a)
    /\ sock[a].wr = "stalled"
    /\ sock' = [sock EXCEPT ![a].wr = "ok"]
    /\ UNCHANGED <<clients, next_client_id, minimum_update_interval, listener, connects, now,
                   pc, todo, writing, sent, resumed, tvars, cvars, avars>>
    /\ shown' = NoShow
    /\ UNCHANGED <<frame_time, last_render, stamp, arrived, retick, discarded>>

\* the viewer at address a closes its connection without a Goodbye: what it
\* wrote before can still be read, then peek gives Ok(0) and
\* try_receive_message nothing; the viewer reads no more, so a write of the
\* host fails (fully closed) or, if the viewer only shut down its sending
\* side, still succeeds
PeerHangUp(a) ==
    /\ a \in Unreliable
    /\ pc = "idle"
    /\ Connected(a)
    /\ sock[a].rd = "ok"
    /\ \E w \in {sock[a].wr, "broken"} :
          sock' = [sock EXCEPT ![a].rd = "eof", ![a].wr = w]
    /\ UNCHANGED <<clients, next_client_id, minimum_update_interval, listener, connects, now,
                   pc, todo, writing, sent, resumed, tvars, cvars, avars>>
    /\ shown' = NoShow
    /\ UNCHANGED <<frame_time, last_render, stamp, arrived, retick, discarded>>

\* a second passes
Tick ==
    /\ pc = "idle"
    /\ now < MaxTime
    /\ now' = now + 1
    /\ UNCHANGED <<clients, next_client_id, minimum_update_interval, listener, sock, connects,
                   pc, todo, writing, sent, resumed, tvars, cvars, avars>>
    /\ shown' = NoShow
    /\ UNCHANGED <<frame_time, last_render, stamp, arrived, retick, discarded>>

-----------------------------------------------------------------------------
(* The specifications.                                                     *)

InitTransport ==
    /\ pipe = <<>>
    /\ rxbuf = <<>>
    /\ rxstate = "open"
    /\ tx = [state |-> "open", blocks |-> 0]
    /\ sendLog = <<>>
    /\ recvLog = <<>>
    /\ ret = NoRet
    /\ foreign = FALSE

\* Server::new
InitServer ==
    /\ clients = << >>
    /\ next_client_id = 0
    /\ minimum_update_interval = 1
    /\ listener = <<>>
    /\ sock = [a \in Addrs |-> NewSock]
    /\ connects = [a \in Addrs |-> 0]
    /\ now = 0
    /\ pc = "idle"
    /\ todo = {}
    /\ writing = NotWriting
    /\ sent = [a \in Addrs |-> <<>>]
    /\ resumed = [a \in Addrs |-> FALSE]
    /\ frame_time = [a \in Addrs |-> None]
    /\ last_render = [a \in Addrs |-> None]
    /\ shown = NoShow
    /\ stamp = 0
    /\ arrived = <<>>
    /\ retick = FALSE
    /\ discarded = {}

-----------------------------------------------------------------------------
(* The viewer: Client and its worker thread (client.rs).  The application  *)
(* owns the Client value; the worker owns the socket and the other ends of *)
(* the two channels.  The socket is seen a packet at a time; what          *)
(* send_packet does with a write that would block is kept as a fragment on *)
(* the wire.                                                               *)

WorkerAt == {"while", "connect", "backoff", "store_true", "run", "drain", "send",
             "retry", "receive", "lock", "add", "decode", "sleep", "store_false", "exit"}
\* from TcpStream::connect returning Ok to run returning
HasStream == {"store_true", "run", "drain", "send", "retry", "receive", "lock", "add",
              "decode", "sleep"}
\* the loop of run
InLoop == {"drain", "send", "retry", "receive", "lock", "add", "decode", "sleep"}

NoStream == [rx |-> <<>>, rd |-> "none", wr |-> "none"]
NewStream == [rx |-> <<>>, rd |-> "open", wr |-> "ok"]

\* outgoing_msg_tx is dropped with the Client, after Drop::drop has run
SenderDropped == owner \in {"no_sender", "gone"}
ReceiverDropped == owner = "gone"

\* the three History values of a Client
Histories3 == {"bandwidth", "latency", "frame"}
\* no History has been read since the application or the clock last moved
NoProbe == ""

\* EguiFrame::default()
DefaultFrame == [frame_index |-> 0, output |-> <<>>, clipped_meshes |-> <<>>]
\* from_clipped_net_shapes and tessellate_shapes of the shapes of Frame n
MeshesOf(n) == <<n>>

update_message_Overwrite(st, msg, t) ==
    IF msg.type = "Fonts"
    THEN [st EXCEPT !.font_definitions = msg.n]
    ELSE LET before == IF st.latest_frame = None THEN DefaultFrame ELSE st.latest_frame[1]
         IN  [st EXCEPT
                !.latest_frame = Some([ frame_index    |-> msg.n,
                                        output         |-> msg.output,
                                        clipped_meshes |-> MeshesOf(msg.n) ]),
                !.latency_history = IF msg.client_time = None THEN @
                                    ELSE Append(@, t - msg.client_time[1]),
                !.frame_history = Append(@, "frame") ]

update_message_AlwaysLatency(st, msg, t) ==
    IF msg.type = "Fonts"
    THEN [st EXCEPT !.font_definitions = msg.n]
    ELSE LET before == IF st.latest_frame = None THEN DefaultFrame ELSE st.latest_frame[1]
         IN  [st EXCEPT
                !.latest_frame = Some([ frame_index    |-> msg.n,
                                        output         |-> before.output \o msg.output,
                                        clipped_meshes |-> MeshesOf(msg.n) ]),
                !.latency_history = IF msg.client_time = None
                                    THEN Append(@, 0)
                                    ELSE Append(@, t - msg.client_time[1]),
                !.frame_history = Append(@, "frame") ]

\* an update that records the time of arrival as the latency
update_message_NoSubtract(st, msg, t) ==
    IF msg.type = "Fonts"
    THEN [st EXCEPT !.font_definitions = msg.n]
    ELSE LET before == IF st.latest_frame = None THEN DefaultFrame ELSE st.latest_frame[1]
         IN  [st EXCEPT
                !.latest_frame = Some([ frame_index    |-> msg.n,
                                        output         |-> before.output \o msg.output,
                                        clipped_meshes |-> MeshesOf(msg.n) ]),
                !.latency_history = IF msg.client_time = None THEN @
                                    ELSE Append(@, t),
                !.frame_history = Append(@, "frame") ]

\* one turn of the loop of Client::update at time t, for the message msg; st
\* holds font_definitions, latest_frame, latency_history and frame_history
update_message(st, msg, t) ==
    IF msg.type = "Fonts"
    THEN [st EXCEPT !.font_definitions = msg.n]
    ELSE LET before == IF st.latest_frame = None THEN DefaultFrame ELSE st.latest_frame[1]
         IN  [st EXCEPT
                !.latest_frame = Some([ frame_index    |-> msg.n,
                                        output         |-> before.output \o msg.output,
                                        clipped_meshes |-> MeshesOf(msg.n) ]),
                !.latency_history = IF msg.client_time = None THEN @
                                    ELSE Append(@, t - msg.client_time[1]),
                !.frame_history = Append(@, "frame") ]

\* the loop of Client::update: while let Ok(msg) = incoming_msg_rx.try_recv()
RECURSIVE update_messages(_, _, _)
update_messages(st, msgs, t) ==
    IF msgs = <<>> THEN st
    ELSE update_messages(update_message(st, Head(msgs), t), Tail(msgs), t)

\* what update works on
AppState ==
    [ font_definitions |-> font_definitions, latest_frame |-> latest_frame,
      latency_history |-> latency_history, frame_history |-> frame_history ]

InitClient ==
    /\ alive = TRUE
    /\ connected = FALSE
    /\ owner = "live"
    /\ outgoing_msg = <<>>
    /\ incoming_msg = <<>>
    /\ worker = "while"
    /\ tcp_stream = NoStream
    /\ sending = None
    /\ attempts = 0
    /\ inputs = 0
    /\ host_msgs = 0
    /\ wire = <<>>
    /\ forwarded = <<>>
    /\ last_exit = "none"
    /\ observed = FALSE
    /\ clock = 0
    /\ lock = "free"
    /\ app_at = "idle"
    /\ held = None
    /\ bandwidth_history = <<>>
    /\ latency_history = <<>>
    /\ frame_history = <<>>
    /\ flushed = [h \in Histories3 |-> None]
    /\ font_definitions = 0
    /\ latest_frame = None
    /\ returned = None
    /\ probe = NoProbe

\* ---- the application thread ----

\* Client::send_input: the Input is stamped with now(), and an unbounded
\* channel takes every message
SendInput ==
    /\ owner = "live"
    /\ inputs < MaxInputs
    /\ inputs' = inputs + 1
    /\ outgoing_msg' = Append(outgoing_msg, [type |-> "Input", n |-> inputs + 1,
                                             client_time |-> clock])
    /\ UNCHANGED <<alive, connected, owner, incoming_msg, worker, tcp_stream, sending,
                   attempts, host_msgs, wire, forwarded, last_exit, observed,
                   tvars, svars, avars>>

\* Client::update: takes every message that waits on incoming_msg
Update ==
    /\ owner = "live"
    /\ app_at = "idle"
    /\ lock = "free"
    /\ incoming_msg' = <<>>
    /\ LET st == update_messages(AppState, incoming_msg, clock)
       IN  /\ font_definitions' = st.font_definitions
           /\ latency_history' = st.latency_history
           /\ frame_history' = st.frame_history
           /\ returned' = st.latest_frame
           /\ latest_frame' = None
    /\ flushed' = [flushed EXCEPT !["bandwidth"] = Some(clock), !["latency"] = Some(clock)]
    /\ probe' = NoProbe
    /\ UNCHANGED <<alive, connected, owner, outgoing_msg, worker, tcp_stream, sending,
                   attempts, inputs, host_msgs, wire, forwarded, last_exit, observed,
                   clock, lock, app_at, held, bandwidth_history, tvars, svars>>

\* Client::update, first part: the fonts and the loop over incoming_msg
UpdateDrain ==
    /\ owner = "live"
    /\ app_at = "idle"
    /\ incoming_msg' = <<>>
    /\ LET st == update_messages(AppState, incoming_msg, clock)
       IN  /\ font_definitions' = st.font_definitions
           /\ latency_history' = st.latency_history
           /\ frame_history' = st.frame_history
           /\ latest_frame' = st.latest_frame
    /\ app_at' = "update_lock"
    /\ returned' = None
    /\ probe' = NoProbe
    /\ UNCHANGED <<alive, connected, owner, outgoing_msg, worker, tcp_stream, sending,
                   attempts, inputs, host_msgs, wire, forwarded, last_exit, observed,
                   clock, lock, held, bandwidth_history, flushed, tvars, svars>>

\* Client::update: self.bandwidth_history.lock()
UpdateLock ==
    /\ app_at = "update_lock"
    /\ lock = "free"
    /\ lock' = "app"
    /\ app_at' = "update_flush"
    /\ probe' = NoProbe
    /\ UNCHANGED <<clock, held, bandwidth_history, latency_history, frame_history, flushed,
                   font_definitions, latest_frame, returned, cvars, tvars, svars>>

\* Client::update, the rest: flush under the lock, the lock released at the
\* end of the statement, flush of latency_history, latest_frame.take()
UpdateFlush ==
    /\ app_at = "update_flush"
    /\ lock' = "free"
    /\ flushed' = [flushed EXCEPT !["bandwidth"] = Some(clock), !["latency"] = Some(clock)]
    /\ returned' = latest_frame
    /\ latest_frame' = None
    /\ app_at' = "idle"
    /\ probe' = NoProbe
    /\ UNCHANGED <<clock, held, bandwidth_history, latency_history, frame_history,
                   font_definitions, cvars, tvars, svars>>

\* Client::bytes_per_second: self.bandwidth_history.lock()
BytesLock ==
    /\ owner = "live"
    /\ app_at = "idle"
    /\ lock = "free"
    /\ lock' = "app"
    /\ app_at' = "bytes_read"
    /\ probe' = NoProbe
    /\ UNCHANGED <<clock, held, bandwidth_history, latency_history, frame_history, flushed,
                   font_definitions, latest_frame, returned, cvars, tvars, svars>>

\* Client::bytes_per_second: sum_over_time() under the lock, then the guard
\* is dropped
BytesRead ==
    /\ app_at = "bytes_read"
    /\ probe' = "bandwidth"
    /\ lock' = "free"
    /\ app_at' = "idle"
    /\ UNCHANGED <<clock, held, bandwidth_history, latency_history, frame_history, flushed,
                   font_definitions, latest_frame, returned, cvars, tvars, svars>>

\* Client::latency: latency_history.average()
ReadLatency ==
    /\ owner = "live"
    /\ app_at = "idle"
    /\ probe' = "latency"
    /\ UNCHANGED <<clock, lock, app_at, held, bandwidth_history, latency_history,
                   frame_history, flushed, font_definitions, latest_frame, returned,
                   cvars, tvars, svars>>

\* Client::adaptive_fps: frame_history.rate()
ReadFps ==
    /\ owner = "live"
    /\ app_at = "idle"
    /\ probe' = "frame"
    /\ UNCHANGED <<clock, lock, app_at, held, bandwidth_history, latency_history,
                   frame_history, flushed, font_definitions, latest_frame, returned,
                   cvars, tvars, svars>>

\* a second passes on the viewer's clock
ClockTick ==
    /\ clock < MaxClock
    /\ clock' = clock + 1
    /\ probe' = NoProbe
    /\ UNCHANGED <<lock, app_at, held, bandwidth_history, latency_history, frame_history,
                   flushed, font_definitions, latest_frame, returned, cvars, tvars, svars>>

\* Drop for Client
DropClient ==
    /\ owner = "live"
    /\ app_at = "idle"
    /\ alive' = FALSE
    /\ owner' = "dropping"
    /\ UNCHANGED <<connected, outgoing_msg, incoming_msg, worker, tcp_stream, sending,
                   attempts, inputs, host_msgs, wire, forwarded, last_exit, observed,
                   tvars, svars, avars>>

\* the fields of the Client are dropped after Drop::drop, in the order of
\* their declaration: the Sender of outgoing_msg, then the Receiver of
\* incoming_msg with what still waits on it
DropFields ==
    /\ owner \in {"dropping", "no_sender"}
    /\ owner' = IF owner = "dropping" THEN "no_sender" ELSE "gone"
    /\ incoming_msg' = IF owner = "no_sender" THEN <<>> ELSE incoming_msg
    /\ UNCHANGED <<alive, connected, outgoing_msg, worker, tcp_stream, sending,
                   attempts, inputs, host_msgs, wire, forwarded, last_exit, observed,
                   tvars, svars, avars>>

\* ---- the worker thread ----

\* while alive.load(SeqCst)
WhileAlive ==
    /\ worker = "while"
    /\ worker' = IF alive THEN "connect" ELSE "exit"
    /\ observed' = (observed \/ ~alive)
    /\ UNCHANGED <<alive, connected, owner, outgoing_msg, incoming_msg, tcp_stream,
                   sending, attempts, inputs, host_msgs, wire, forwarded, last_exit,
                   tvars, svars, avars>>

\* TcpStream::connect returns Ok
ConnectOk ==
    /\ worker = "connect"
    /\ attempts < MaxAttempts
    /\ attempts' = attempts + 1
    /\ tcp_stream' = NewStream
    /\ wire' = <<>>
    /\ forwarded' = <<>>
    /\ worker' = "store_true"
    /\ UNCHANGED <<alive, connected, owner, outgoing_msg, incoming_msg, sending, inputs,
                   host_msgs, last_exit, observed, tvars, svars, avars>>

\* TcpStream::connect returns Err
ConnectErr ==
    /\ worker = "connect"
    /\ worker' = "backoff"
    /\ UNCHANGED <<alive, connected, owner, outgoing_msg, incoming_msg, tcp_stream,
                   sending, attempts, inputs, host_msgs, wire, forwarded, last_exit,
                   observed, tvars, svars, avars>>

\* thread::sleep of one second, then the loop condition again
Backoff ==
    /\ worker = "backoff"
    /\ worker' = "while"
    /\ UNCHANGED <<alive, connected, owner, outgoing_msg, incoming_msg, tcp_stream,
                   sending, attempts, inputs, host_msgs, wire, forwarded, last_exit,
                   observed, tvars, svars, avars>>

\* connected.store(true, SeqCst)
StoreTrue ==
    /\ worker = "store_true"
    /\ connected' = TRUE
    /\ worker' = "run"
    /\ UNCHANGED <<alive, owner, outgoing_msg, incoming_msg, tcp_stream, sending,
                   attempts, inputs, host_msgs, wire, forwarded, last_exit, observed,
                   tvars, svars, avars>>

\* a worker that leaves the flag alone when run has returned Ok(())
StoreFalse_OnlyAfterError ==
    /\ worker = "store_false"
    /\ connected' = (last_exit = "sender_dropped")
    /\ worker' = "while"
    /\ UNCHANGED <<alive, owner, outgoing_msg, incoming_msg, tcp_stream, sending,
                   attempts, inputs, host_msgs, wire, forwarded, last_exit, observed,
                   tvars, svars, avars>>

\* connected.store(false, SeqCst), then the loop condition again
StoreFalse ==
    /\ worker = "store_false"
    /\ connected' = FALSE
    /\ worker' = "while"
    /\ UNCHANGED <<alive, owner, outgoing_msg, incoming_msg, tcp_stream, sending,
                   attempts, inputs, host_msgs, wire, forwarded, last_exit, observed,
                   tvars, svars, avars>>

\* run returns, with an error or with Ok(()): the socket is closed with it
Return(reason) ==
    /\ worker' = "store_false"
    /\ last_exit' = reason
    /\ tcp_stream' = NoStream
    /\ sending' = None

\* run before its loop: set_nonblocking works or fails
RunSetup ==
    /\ worker = "run"
    /\ \/ /\ worker' = "drain"
          /\ UNCHANGED <<tcp_stream, sending, last_exit>>
       \/ Return("io")
    /\ UNCHANGED <<alive, connected, owner, outgoing_msg, incoming_msg, attempts,
                   inputs, host_msgs, wire, forwarded, observed, tvars, svars, avars>>

\* outgoing_msg_rx.try_recv(): a message, Empty, or Disconnected once the
\* queue is empty and its Sender is gone
Drain ==
    /\ worker = "drain"
    /\ IF outgoing_msg # <<>>
       THEN /\ sending' = Some(Head(outgoing_msg))
            /\ outgoing_msg' = Tail(outgoing_msg)
            /\ worker' = "send"
            /\ UNCHANGED <<tcp_stream, last_exit, observed>>
       ELSE IF SenderDropped
       THEN /\ Return("sender_dropped")
            /\ observed' = TRUE
            /\ UNCHANGED outgoing_msg
       ELSE /\ worker' = "receive"
            /\ UNCHANGED <<outgoing_msg, tcp_stream, sending, last_exit, observed>>
    /\ UNCHANGED <<alive, connected, owner, incoming_msg, attempts, inputs, host_msgs,
                   wire, forwarded, tvars, svars, avars>>

\* the sample of a packet: packet.len(), packet n being n bytes long.  The
\* time of a sample only matters to the ageing of a History and is left out.
Sample(packet) == packet.n

\* what a write that would block leaves on the wire: nothing, or the first
\* bytes of the chunk, which the retry then writes again
Fragment(m) == [type |-> m.type, n |-> m.n, client_time |-> m.client_time, whole |-> FALSE]
Whole(m) == [type |-> m.type, n |-> m.n, client_time |-> m.client_time, whole |-> TRUE]

\* tcp_endpoint.send_message(&message)?, one call of write_all at a time:
\* written; would block, and then sleep before the chunk is written again; or
\* an error.  The host that has closed answers the first write with a reset.
Send ==
    /\ worker = "send"
    /\ \/ /\ tcp_stream.wr = "ok"
          /\ wire' = Append(wire, Whole(sending[1]))
          /\ sending' = None
          /\ tcp_stream' = IF tcp_stream.rd = "eof"
                           THEN [tcp_stream EXCEPT !.wr = "broken"] ELSE tcp_stream
          /\ worker' = "drain"
          /\ UNCHANGED last_exit
       \/ /\ tcp_stream.wr = "stalled"
          /\ \E partly \in BOOLEAN :
                wire' = IF partly /\ (wire = <<>> \/ wire[Len(wire)] # Fragment(sending[1]))
                        THEN Append(wire, Fragment(sending[1])) ELSE wire
          /\ worker' = "retry"
          /\ UNCHANGED <<sending, tcp_stream, last_exit>>
       \/ /\ tcp_stream.wr = "broken"
          /\ Return("io")
          /\ UNCHANGED wire
    /\ UNCHANGED <<alive, connected, owner, outgoing_msg, incoming_msg, attempts,
                   inputs, host_msgs, forwarded, observed, tvars, svars, avars>>

Receive_SampleAfterDecode ==
    /\ worker = "receive"
    /\ lock = "free"
    /\ IF tcp_stream.rd = "reset"
       THEN /\ Return("io")
            /\ UNCHANGED <<incoming_msg, forwarded, observed, bandwidth_history>>
       ELSE IF tcp_stream.rx = <<>>
       THEN /\ worker' = "sleep"
            /\ UNCHANGED <<tcp_stream, sending, last_exit, incoming_msg, forwarded,
                           observed, bandwidth_history>>
       ELSE LET packet == Head(tcp_stream.rx)
            IN  /\ bandwidth_history' = IF packet.type = "Junk" THEN bandwidth_history
                                     ELSE Append(bandwidth_history, Sample(packet))
                /\ IF packet.type = "Junk"
                   THEN /\ Return("decode")
                        /\ UNCHANGED <<incoming_msg, forwarded, observed>>
                   ELSE IF ReceiverDropped
                   THEN /\ Return("receiver_dropped")
                        /\ observed' = TRUE
                        /\ UNCHANGED <<incoming_msg, forwarded>>
                   ELSE /\ incoming_msg' = Append(incoming_msg, packet)
                        /\ forwarded' = Append(forwarded, packet)
                        /\ tcp_stream' = [tcp_stream EXCEPT !.rx = Tail(@)]
                        /\ UNCHANGED <<worker, sending, last_exit, observed>>
    /\ probe' = NoProbe
    /\ UNCHANGED <<alive, connected, owner, outgoing_msg, attempts, inputs, host_msgs,
                   wire, clock, lock, app_at, held, latency_history, frame_history, flushed,
                   font_definitions, latest_frame, returned, tvars, svars>>

\* while let Some(packet) = try_receive_packet()?: a whole packet is decoded and
\* forwarded; without one, a reset is an error, and an open socket and one at
\* end-of-stream alike give Ok(None)
Receive ==
    /\ worker = "receive"
    /\ lock = "free"
    /\ IF tcp_stream.rd = "reset"
       THEN /\ Return("io")
            /\ UNCHANGED <<incoming_msg, forwarded, observed, bandwidth_history>>
       ELSE IF tcp_stream.rx = <<>>
       THEN /\ worker' = "sleep"
            /\ UNCHANGED <<tcp_stream, sending, last_exit, incoming_msg, forwarded,
                           observed, bandwidth_history>>
       ELSE LET packet == Head(tcp_stream.rx)
            IN  /\ bandwidth_history' = Append(bandwidth_history, Sample(packet))
                /\ IF packet.type = "Junk"
                   THEN /\ Return("decode")
                        /\ UNCHANGED <<incoming_msg, forwarded, observed>>
                   ELSE IF ReceiverDropped
                   THEN /\ Return("receiver_dropped")
                        /\ observed' = TRUE
                        /\ UNCHANGED <<incoming_msg, forwarded>>
                   ELSE /\ incoming_msg' = Append(incoming_msg, packet)
                        /\ forwarded' = Append(forwarded, packet)
                        /\ tcp_stream' = [tcp_stream EXCEPT !.rx = Tail(@)]
                        /\ UNCHANGED <<worker, sending, last_exit, observed>>
    /\ probe' = NoProbe
    /\ UNCHANGED <<alive, connected, owner, outgoing_msg, attempts, inputs, host_msgs,
                   wire, clock, lock, app_at, held, latency_history, frame_history, flushed,
                   font_definitions, latest_frame, returned, tvars, svars>>

\* the same, a statement at a time.  try_receive_packet: a packet, nothing, or
\* an error
Peek ==
    /\ worker = "receive"
    /\ IF tcp_stream.rd = "reset"
       THEN /\ Return("io")
            /\ UNCHANGED held
       ELSE IF tcp_stream.rx = <<>>
       THEN /\ worker' = "sleep"
            /\ UNCHANGED <<tcp_stream, sending, last_exit, held>>
       ELSE /\ held' = Some(Head(tcp_stream.rx))
            /\ tcp_stream' = [tcp_stream EXCEPT !.rx = Tail(@)]
            /\ worker' = "lock"
            /\ UNCHANGED <<sending, last_exit>>
    /\ probe' = NoProbe
    /\ UNCHANGED <<alive, connected, owner, outgoing_msg, incoming_msg, attempts, inputs,
                   host_msgs, wire, forwarded, observed, clock, lock, app_at,
                   bandwidth_history, latency_history, frame_history, flushed,
                   font_definitions, latest_frame, returned, tvars, svars>>

\* bandwidth_history.lock()
LockAdd ==
    /\ worker = "lock"
    /\ lock = "free"
    /\ lock' = "worker"
    /\ worker' = "add"
    /\ probe' = NoProbe
    /\ UNCHANGED <<alive, connected, owner, outgoing_msg, incoming_msg, tcp_stream, sending,
                   attempts, inputs, host_msgs, wire, forwarded, last_exit, observed,
                   clock, app_at, held, bandwidth_history, latency_history, frame_history,
                   flushed, font_definitions, latest_frame, returned, tvars, svars>>

AddSample_KeepGuard ==
    /\ worker = "add"
    /\ bandwidth_history' = Append(bandwidth_history, Sample(held[1]))
    /\ lock' = lock
    /\ worker' = "decode"
    /\ probe' = NoProbe
    /\ UNCHANGED <<alive, connected, owner, outgoing_msg, incoming_msg, tcp_stream, sending,
                   attempts, inputs, host_msgs, wire, forwarded, last_exit, observed,
                   clock, app_at, held, latency_history, frame_history, flushed,
                   font_definitions, latest_frame, returned, tvars, svars>>

\* .add(now(), packet.len() as f32), and the guard dropped with the statement
AddSample ==
    /\ worker = "add"
    /\ bandwidth_history' = Append(bandwidth_history, Sample(held[1]))
    /\ lock' = "free"
    /\ worker' = "decode"
    /\ probe' = NoProbe
    /\ UNCHANGED <<alive, connected, owner, outgoing_msg, incoming_msg, tcp_stream, sending,
                   attempts, inputs, host_msgs, wire, forwarded, last_exit, observed,
                   clock, app_at, held, latency_history, frame_history, flushed,
                   font_definitions, latest_frame, returned, tvars, svars>>

\* decode_message(&packet)?, then incoming_msg_tx.send(message)?
Forward ==
    /\ worker = "decode"
    /\ held' = None
    /\ IF held[1].type = "Junk"
       THEN /\ Return("decode")
            /\ UNCHANGED <<incoming_msg, forwarded, observed>>
       ELSE IF ReceiverDropped
       THEN /\ Return("receiver_dropped")
            /\ observed' = TRUE
            /\ UNCHANGED <<incoming_msg, forwarded>>
       ELSE /\ incoming_msg' = Append(incoming_msg, held[1])
            /\ forwarded' = Append(forwarded, held[1])
            /\ worker' = "receive"
            /\ UNCHANGED <<tcp_stream, sending, last_exit, observed>>
    /\ probe' = NoProbe
    /\ UNCHANGED <<alive, connected, owner, outgoing_msg, attempts, inputs, host_msgs,
                   wire, clock, lock, app_at, bandwidth_history, latency_history,
                   frame_history, flushed, font_definitions, latest_frame, returned,
                   tvars, svars>>

\* write_all_with_retry: thread::sleep of 5 ms, then write_all again
RetrySleep ==
    /\ worker = "retry"
    /\ worker' = "send"
    /\ UNCHANGED <<alive, connected, owner, outgoing_msg, incoming_msg, tcp_stream,
                   sending, attempts, inputs, host_msgs, wire, forwarded, last_exit,
                   observed, tvars, svars, avars>>

\* thread::sleep of 5 ms, then the loop again
PollSleep ==
    /\ worker = "sleep"
    /\ worker' = "drain"
    /\ UNCHANGED <<alive, connected, owner, outgoing_msg, incoming_msg, tcp_stream,
                   sending, attempts, inputs, host_msgs, wire, forwarded, last_exit,
                   observed, tvars, svars, avars>>

\* ---- the host at the other end of the worker's socket ----

HostPackets == {"Frame", "Junk"}

\* the host writes a packet: a Frame, or bytes that do not decode
HostSend(type) ==
    /\ worker \in HasStream
    /\ tcp_stream.rd = "open"
    /\ host_msgs < MaxHostMsgs
    /\ host_msgs' = host_msgs + 1
    /\ tcp_stream' = [tcp_stream EXCEPT !.rx =
                         Append(@, [type |-> type, n |-> host_msgs + 1,
                                    client_time |-> None, output |-> <<>>])]
    /\ UNCHANGED <<alive, connected, owner, outgoing_msg, incoming_msg, worker, sending,
                   attempts, inputs, wire, forwarded, last_exit, observed, tvars, svars, avars>>

\* what the host may write when all of a message counts: Fonts, a Frame with
\* or without an echoed client_time, or bytes that do not decode; Frame n has
\* the side effect n in its output
Posts ==
    [type : {"Frame"}, client_time : {None, Some(0)}]
        \cup [type : {"Fonts", "Junk"}, client_time : {None}]

HostPost(p) ==
    /\ worker \in HasStream
    /\ tcp_stream.rd = "open"
    /\ host_msgs < MaxHostMsgs
    /\ host_msgs' = host_msgs + 1
    /\ tcp_stream' = [tcp_stream EXCEPT !.rx =
                         Append(@, [type |-> p.type, n |-> host_msgs + 1,
                                    client_time |-> p.client_time,
                                    output |-> IF p.type = "Frame" THEN <<host_msgs + 1>>
                                               ELSE <<>>])]
    /\ probe' = NoProbe
    /\ UNCHANGED <<alive, connected, owner, outgoing_msg, incoming_msg, worker, sending,
                   attempts, inputs, wire, forwarded, last_exit, observed, clock, lock,
                   app_at, held, bandwidth_history, latency_history, frame_history, flushed,
                   font_definitions, latest_frame, returned, tvars, svars>>

\* the client_time a Frame of the host may carry: none, or that of an Input
\* the host has read on this connection
Echoes ==
    {None} \cup { Some(wire[i].client_time) : i \in { k \in 1..Len(wire) : wire[k].whole } }

\* the host writes a Frame that echoes e
HostEcho(e) ==
    /\ worker \in HasStream
    /\ tcp_stream.rd = "open"
    /\ host_msgs < MaxHostMsgs
    /\ host_msgs' = host_msgs + 1
    /\ tcp_stream' = [tcp_stream EXCEPT !.rx =
                         Append(@, [type |-> "Frame", n |-> host_msgs + 1,
                                    client_time |-> e, output |-> <<>>])]
    /\ UNCHANGED <<alive, connected, owner, outgoing_msg, incoming_msg, worker, sending,
                   attempts, inputs, wire, forwarded, last_exit, observed, tvars, svars, avars>>

\* the host closes the connection cleanly: end-of-stream after what it wrote,
\* and what the worker could not write until then never will be
HostClose ==
    /\ worker \in HasStream
    /\ tcp_stream.rd = "open"
    /\ tcp_stream' = [tcp_stream EXCEPT !.rd = "eof",
                                        !.wr = IF @ = "stalled" THEN "broken" ELSE @]
    /\ UNCHANGED <<alive, connected, owner, outgoing_msg, incoming_msg, worker, sending,
                   attempts, inputs, host_msgs, wire, forwarded, last_exit, observed,
                   tvars, svars, avars>>

\* the connection breaks
HostReset ==
    /\ worker \in HasStream
    /\ tcp_stream.rd \in {"open", "eof"}
    /\ tcp_stream' = [tcp_stream EXCEPT !.rd = "reset", !.wr = "broken"]
    /\ UNCHANGED <<alive, connected, owner, outgoing_msg, incoming_msg, worker, sending,
                   attempts, inputs, host_msgs, wire, forwarded, last_exit, observed,
                   tvars, svars, avars>>

\* the host stops reading and the worker's send buffer is full, or it reads again
HostStall ==
    /\ worker \in HasStream
    /\ tcp_stream.rd = "open"
    /\ tcp_stream.wr \in {"ok", "stalled"}
    /\ tcp_stream' = [tcp_stream EXCEPT !.wr = IF @ = "ok" THEN "stalled" ELSE "ok"]
    /\ UNCHANGED <<alive, connected, owner, outgoing_msg, incoming_msg, worker, sending,
                   attempts, inputs, host_msgs, wire, forwarded, last_exit, observed,
                   tvars, svars, avars>>

WorkerStep ==
    \/ WhileAlive
    \/ ConnectOk
    \/ ConnectErr
    \/ Backoff
    \/ StoreTrue
    \/ RunSetup
    \/ Drain
    \/ Send
    \/ RetrySleep
    \/ Receive
    \/ PollSleep
    \/ StoreFalse

NextClient ==
    \/ WorkerStep
    \/ SendInput
    \/ Update
    \/ DropClient
    \/ DropFields
    \/ \E type \in HostPackets : HostSend(type)
    \/ HostClose
    \/ HostReset
    \/ HostStall

Init == InitTransport /\ InitServer /\ InitClient

NextTransport ==
    \/ SendPacket
    \/ SendPacketError
    \/ Arrive
    \/ PeerClose
    \/ PeerReset
    \/ RawWrite
    \/ TryReceivePacket

SpecTransport == Init /\ [][NextTransport]_vars

ServerStep ==
    \/ AcceptNewClients
    \/ TryReceive
    \/ \E a \in Addrs : ClientShow(a)
    \/ WriteAttempt
    \/ Sleep
    \/ ShowReturn

NextServer ==
    \/ ServerStep
    \/ \E a \in Addrs : Connect(a)
    \/ \E a \in Addrs : PeerSend(a)
    \/ \E a \in Addrs : SocketBreak(a)
    \/ \E a \in Addrs : PeerStall(a)
    \/ \E a \in Addrs : PeerResume(a)
    \/ Tick

SpecServer == Init /\ [][NextServer]_vars

\* One session, watched: the host with the viewer that does everything, the
\* application changing the interval, and every tick recorded.
Intervals == {0, 1}

NextSession ==
    \/ AcceptNewClients
    \/ TryReceive
    \/ \E a \in Unreliable : WatchedShow(a)
    \/ WatchedWriteAttempt
    \/ Sleep
    \/ TickInSleep
    \/ ShowReturn
    \/ \E seconds \in Intervals : SetMinimumUpdateInterval(seconds)
    \/ \E a \in Unreliable : Connect(a)
    \/ \E a \in Unreliable : PeerSend(a)
    \/ \E a \in Unreliable : SocketBreak(a)
    \/ \E a \in Unreliable : PeerStall(a)
    \/ \E a \in Unreliable : PeerResume(a)
    \/ Tick

SpecSession == Init /\ [][NextSession]_vars

\* One session and the Inputs it is sent, numbered: what arrives between two
\* renders and what each render is handed.
NextInputs ==
    \/ AcceptNewClients
    \/ \E a \in Unreliable : NotedTryReceive(a)
    \/ \E a \in Unreliable : NotedShow(a)
    \/ ShowReturn
    \/ \E a \in Unreliable : Connect(a)
    \/ \E a \in Unreliable : PeerPost(a)
    \/ \E a \in Unreliable : SocketBreak(a)
    \/ Tick

SpecInputs == Init /\ [][NextInputs]_vars

\* The host with viewers that may also close their connection without a word.
NextClose ==
    \/ ServerStep
    \/ \E a \in Addrs : Connect(a)
    \/ \E a \in Addrs : PeerSend(a)
    \/ \E a \in Addrs : SocketBreak(a)
    \/ \E a \in Addrs : PeerStall(a)
    \/ \E a \in Addrs : PeerResume(a)
    \/ \E a \in Addrs : PeerHangUp(a)
    \/ Tick

SpecClose == Init /\ [][NextClose]_vars

\* the thread that calls Server::show keeps running
FairSpecClose == SpecClose /\ WF_vars(ServerStep)

\* the thread that calls Server::show keeps running
FairSpecServer == SpecServer /\ WF_vars(ServerStep)

SpecClient == Init /\ [][NextClient]_vars

\* The viewer with its application side: the worker's receive path a statement
\* at a time, update and the telemetry reads, and the host writing every kind
\* of message; the application sends nothing and keeps its Client, and the
\* host does not reset the connection.
NextTelemetry ==
    \/ WhileAlive
    \/ ConnectOk
    \/ ConnectErr
    \/ Backoff
    \/ StoreTrue
    \/ RunSetup
    \/ Drain
    \/ Peek
    \/ LockAdd
    \/ AddSample
    \/ Forward
    \/ PollSleep
    \/ StoreFalse
    \/ UpdateDrain
    \/ UpdateLock
    \/ UpdateFlush
    \/ BytesLock
    \/ BytesRead
    \/ ReadLatency
    \/ ReadFps
    \/ ClockTick
    \/ \E p \in Posts : HostPost(p)

SpecTelemetry == Init /\ [][NextTelemetry]_vars

\* The viewer and its clock: the application stamps its Inputs, the host
\* echoes the stamps it has read, and update measures; the connection is
\* healthy and the application keeps its Client.
NextLatency ==
    \/ WhileAlive
    \/ ConnectOk
    \/ ConnectErr
    \/ Backoff
    \/ StoreTrue
    \/ RunSetup
    \/ Drain
    \/ Send
    \/ Receive
    \/ PollSleep
    \/ StoreFalse
    \/ SendInput
    \/ Update
    \/ ClockTick
    \/ \E e \in Echoes : HostEcho(e)

SpecLatency == Init /\ [][NextLatency]_vars

\* the worker thread keeps running, and a drop that has begun is completed
FairSpecClient == SpecClient /\ WF_vars(WorkerStep) /\ WF_vars(DropFields)

-----------------------------------------------------------------------------
(* Claims about the framed transport, checked under SpecTransport.         *)

\* the step just taken was a call of try_receive_packet on a socket that is not reset
ReceiveCall == ret'.op = "recv" /\ rxstate # "reset"

HasHeader(buf) == BLen(buf) >= HeaderLen
HeaderOf(buf)  == ToBytes(BTake(buf, HeaderLen))
MagicOf(buf)   == SubSeq(HeaderOf(buf), 1, 5)
VersionOf(buf) == SubSeq(HeaderOf(buf), 6, 8)
LengthOf(buf)  == from_le_bytes(SubSeq(HeaderOf(buf), 9, 12))
GoodMagic(buf)   == MagicOf(buf) = SubSeq(PROTOCOL_HEADER, 1, 5)
GoodVersion(buf) == VersionOf(buf) = SubSeq(PROTOCOL_HEADER, 6, 8)

IsPrefix(q, r) == Len(q) <= Len(r) /\ SubSeq(r, 1, Len(q)) = q

\* C4: the payloads try_receive_packet returns are the payloads written with
\* send_packet, in order, none lost, duplicated, split or merged, however the
\* stream is cut into arriving chunks: what was received is always a prefix of
\* what was sent, no call fails, and once the stream has arrived and is drained
\* the two are equal.
C4_FramingRoundTrip ==
    (~foreign /\ tx.state = "open" /\ rxstate # "reset") =>
        /\ IsPrefix(recvLog, sendLog)
        /\ ~(ret.op = "recv" /\ ret.kind = "Err")
        /\ (pipe = <<>> /\ ret.op = "recv" /\ ret.kind = "None" => recvLog = sendLog)

\* the same with a writer whose socket never reported would-block
FramingRoundTripWithoutWouldBlock ==
    tx.blocks = 0 => C4_FramingRoundTrip

\* C5: a call of try_receive_packet that returns None leaves the stream where it
\* was; a call consumes bytes only when it returns a packet, and then it consumes
\* the 12 header bytes and the LENGTH payload bytes, which are the packet.
C5_NotYetConsumesNothing ==
    [][ ret'.op = "recv" =>
          /\ (ret'.kind # "Some" => rxbuf' = rxbuf)
          /\ (ret'.kind = "Some" =>
                /\ HasHeader(rxbuf)
                /\ BLen(rxbuf) - BLen(rxbuf') = HeaderLen + LengthOf(rxbuf)
                /\ rxbuf' = BDrop(rxbuf, HeaderLen + LengthOf(rxbuf))
                /\ ret'.packet = BDrop(BTake(rxbuf, HeaderLen + LengthOf(rxbuf)), HeaderLen))
      ]_vars

\* a call has just returned None with the header complete and the payload not
C5_Witness ==
    /\ ret.op = "recv" /\ ret.kind = "None"
    /\ HasHeader(rxbuf)
    /\ BLen(rxbuf) > HeaderLen
    /\ BLen(rxbuf) < HeaderLen + LengthOf(rxbuf)

\* C6: a complete header with the right magic and a version that differs from the
\* local one is refused with the version-mismatch error, whatever the length field
\* says and whether or not the payload is there; nothing is consumed.
C6_VersionGate ==
    [][ (ReceiveCall /\ HasHeader(rxbuf) /\ GoodMagic(rxbuf) /\ ~GoodVersion(rxbuf)) =>
          (ret'.kind = "Err" /\ ret'.err = "VersionMismatch" /\ rxbuf' = rxbuf)
      ]_vars

\* a patch-level mismatch was refused although the length is above the ceiling
C6_Witness ==
    /\ ret.op = "recv" /\ ret.err = "VersionMismatch"
    /\ VersionOf(rxbuf) = <<0, 0, 2>>
    /\ LengthOf(rxbuf) > MaxPacketLength

\* C7: a complete header whose first 5 bytes are not the magic is refused with the
\* not-eterm error, whatever the version and the length bytes are.
C7_MagicGate ==
    [][ (ReceiveCall /\ HasHeader(rxbuf) /\ ~GoodMagic(rxbuf)) =>
          (ret'.kind = "Err" /\ ret'.err = "NotEterm" /\ rxbuf' = rxbuf)
      ]_vars

\* a header with a wrong magic, a wrong version and a length above the ceiling was
\* refused as not eterm
C7_Witness ==
    /\ ret.op = "recv" /\ ret.err = "NotEterm"
    /\ HasHeader(rxbuf) /\ ~GoodVersion(rxbuf)
    /\ LengthOf(rxbuf) > MaxPacketLength

\* C8: a well-formed header declaring more than 32,000,000 bytes is refused and
\* nothing is consumed, whether or not payload bytes follow; a well-formed header
\* declaring exactly 32,000,000 is answered None (nothing consumed) until its
\* payload is there, and then returned as the packet.
C8_LengthCeiling ==
    [][ (ReceiveCall /\ HasHeader(rxbuf) /\ GoodMagic(rxbuf) /\ GoodVersion(rxbuf)) =>
          /\ (LengthOf(rxbuf) >= 32000001 =>
                ret'.kind = "Err" /\ ret'.err = "Oversized" /\ rxbuf' = rxbuf)
          /\ (LengthOf(rxbuf) = 32000000 /\ BLen(rxbuf) < HeaderLen + 32000000 =>
                ret'.kind = "None" /\ rxbuf' = rxbuf)
          /\ (LengthOf(rxbuf) = 32000000 /\ BLen(rxbuf) >= HeaderLen + 32000000 =>
                /\ ret'.kind = "Some"
                /\ ret'.packet = BDrop(BTake(rxbuf, HeaderLen + 32000000), HeaderLen))
      ]_vars

\* a packet of exactly 32,000,000 bytes was returned
C8_Witness ==
    ret.op = "recv" /\ ret.kind = "Some" /\ BLen(ret.packet) = 32000000

\* a header declaring 32,000,001 bytes was refused with its payload in the socket
C8_WitnessOversized ==
    /\ ret.op = "recv" /\ ret.err = "Oversized"
    /\ LengthOf(rxbuf) = 32000001 /\ BLen(rxbuf) = HeaderLen + 32000001

\* C9: a send_packet call that returns Ok has put on the stream PROTOCOL_HEADER,
\* the length as u32 little-endian and the payload, each byte once and in order.
C9_SendWritesFrameOnce ==
    (ret.op = "send" /\ ret.kind = "Ok") => ret.out = Frame(ret.packet)

\* the same for the calls in which no write stopped part-way
SendWritesFrameOnceUnlessPartial ==
    (ret.op = "send" /\ ret.kind = "Ok" /\ BLen(ret.out) = BLen(Frame(ret.packet))) =>
        ret.out = Frame(ret.packet)

-----------------------------------------------------------------------------
(* Claims about the host session table, checked under SpecServer and, for  *)
(* termination, FairSpecServer.                                            *)

\* the positions of a session's Frames in send order
FramesOf(a) == 1..Len(sent[a])

\* C1: the frame_index values of the Frames a session sends are strictly
\* increasing in send order, so none is used twice, whatever ticks, disconnects
\* and reconnects of its address lie between them.
C1_FrameIndexIncreasing ==
    \A a \in Addrs : \A i, j \in FramesOf(a) :
        i < j => sent[a][i].frame_index < sent[a][j].frame_index

\* a session has sent a Frame, was disconnected, and has sent another on the
\* connection accepted afterwards
C1_Witness ==
    \E a \in Addrs :
        /\ resumed[a]
        /\ Len(sent[a]) >= 2
        /\ sent[a][1].conn # sent[a][Len(sent[a])].conn

\* what a reconnect must not touch
Retained(c) == <<c.client_id, c.egui_ctx, c.frame_index>>

\* C2: from the moment a session is disconnected until a connection from its
\* address has been accepted, and in the steps that disconnect it on a read error,
\* a Goodbye or an error of a write that was retried, the session stays in the
\* table with its ClientId, its egui context and its frame index counter as they
\* were; and every Frame sent on a later connection has a larger frame_index than
\* every Frame sent on an earlier one.
C2_SessionResumption ==
    /\ [][ \A a \in DOMAIN clients :
             (clients[a].tcp_endpoint = None \/ pc \in {"idle", "receive", "write", "sleep"}) =>
                 /\ a \in DOMAIN clients'
                 /\ Retained(clients'[a]) = Retained(clients[a])
         ]_vars
    /\ [](\A a \in Addrs : \A i, j \in FramesOf(a) :
             sent[a][i].conn < sent[a][j].conn =>
                 sent[a][i].frame_index < sent[a][j].frame_index)

\* a session whose context has been used and which has sent a Frame on its first
\* connection was disconnected, holds the second connection of its address, and
\* has sent a Frame on it
C2_Witness ==
    \E a \in DOMAIN clients :
        /\ resumed[a]
        /\ clients[a].tcp_endpoint = Some(2)
        /\ clients[a].egui_ctx = "used"
        /\ clients[a].client_id = 0
        /\ \E i, j \in FramesOf(a) : sent[a][i].conn = 1 /\ sent[a][j].conn = 2

\* the step installs a connection on the session of address a, which existed
Reaccepted(a) ==
    /\ a \in DOMAIN clients
    /\ clients'[a].tcp_endpoint # None
    /\ clients'[a].tcp_endpoint # clients[a].tcp_endpoint

\* C3: whenever accept_new_clients installs a connection on a session that already
\* exists, whether or not the session still holds an earlier one, the session's
\* last_visuals is empty at that moment.
C3_AcceptFindsEmptySnapshot ==
    [][ \A a \in Addrs : Reaccepted(a) => clients'[a].last_visuals = <<>> ]_vars

\* the same for the accepts that find the session disconnected
AcceptAfterDisconnectFindsEmptySnapshot ==
    [][ \A a \in Addrs :
          (Reaccepted(a) /\ clients[a].tcp_endpoint = None) =>
              clients'[a].last_visuals = <<>> ]_vars

\* C10: every call of Server::show returns, also when the socket of one viewer
\* reports would-block on every write from some moment on.
C10_ShowTerminates ==
    (pc # "idle") ~> (pc = "idle")

\* the same, as long as every socket that reports would-block takes the bytes in
\* the end
ShowTerminatesUnlessStalledForever ==
    (pc # "idle") ~> (pc = "idle" \/ <>[](pc \in {"write", "sleep"} /\ sock[writing.addr].wr = "stalled"))

\* C34: the session table only grows: every step keeps every session, under
\* its address and with the ClientId it was created with; the sessions of two
\* addresses never share a ClientId and there are as many sessions as ClientIds
\* given out, so no address ever has a second session; a session may be without
\* connection handle, and a socket the host holds is the handle of a session.
C34_TableOnlyGrows ==
    /\ [][\A a \in DOMAIN clients :
             /\ a \in DOMAIN clients'
             /\ clients'[a].client_id = clients[a].client_id]_vars
    /\ [](/\ \A a \in DOMAIN clients : clients[a].addr = a
          /\ \A a, b \in DOMAIN clients :
                a # b => clients[a].client_id # clients[b].client_id
          /\ next_client_id = Cardinality(DOMAIN clients)
          /\ \A a \in Addrs : sock[a] # NewSock => Connected(a))

\* C34 witness: both addresses have their session; that of "a" was
\* disconnected, came back on a second connection and has lost that one too.
C34_Witness ==
    /\ DOMAIN clients = Addrs
    /\ connects["a"] = 2
    /\ listener = <<>>
    /\ clients["a"].tcp_endpoint = None
    /\ clients["b"].tcp_endpoint # None
    /\ next_client_id = 2

-----------------------------------------------------------------------------
(* Claims about one session's ticks, checked under SpecSession.            *)

\* the step just taken was a tick of a session that held a connection
Ticked == shown.addr # "" /\ shown.connected

\* ... and it rendered, as the session's last rendered tick had on the same
\* connection, both with the same shapes and an output without side effects
TwoEqualTicks ==
    /\ Ticked /\ shown.rendered
    /\ shown.before # None
    /\ shown.before[1].conn = shown.tick.conn
    /\ shown.before[1].shapes = shown.tick.shapes
    /\ shown.before[1].output = "default"
    /\ shown.tick.output = "default"

\* C12: of two consecutive rendered ticks of a connected session with equal
\* shapes and outputs without side effects, the first sends a Frame and the
\* second sends none, whatever the shapes, the empty list included.
C12_ExactlyOneFrame ==
    TwoEqualTicks => (shown.before[1].frame /\ ~shown.tick.frame)

\* C12 as amended: the second sends none, and the first sends one exactly when
\* its shapes differ from the snapshot it found
C12_AtMostOneFrame ==
    TwoEqualTicks =>
        /\ ~shown.tick.frame
        /\ shown.before[1].frame = (shown.before[1].shapes # shown.before[1].snapshot)

\* two equal ticks drawing a rect, the first sent and the second suppressed
C12_Witness ==
    /\ TwoEqualTicks
    /\ shown.tick.shapes = <<"rect">>
    /\ shown.before[1].frame /\ ~shown.tick.frame

\* C13: a tick of a connected session without pending input renders only if
\* more than minimum_update_interval has passed since its last Frame was sent;
\* a tick that does not render sends nothing and leaves the session as it was.
C13_IdleTickVsLastFrame ==
    [][ (Ticked' /\ ~shown'.had_input) =>
          /\ shown'.rendered =>
                (shown'.since_frame = None
                    \/ shown'.since_frame[1] > minimum_update_interval)
          /\ ~shown'.rendered =>
                (clients'[shown'.addr] = clients[shown'.addr] /\ sent' = sent)
      ]_vars

\* C13 as amended: the time that counts is the time since the session's last
\* render (last_update), sent or suppressed
C13_IdleTickVsLastRender ==
    [][ (Ticked' /\ ~shown'.had_input) =>
          /\ shown'.rendered =
                (shown'.since_update = None
                    \/ shown'.since_update[1] > minimum_update_interval)
          /\ ~shown'.rendered =>
                (clients'[shown'.addr] = clients[shown'.addr] /\ sent' = sent)
      ]_vars

\* a tick without input has rendered because the interval had passed
C13_Witness ==
    /\ Ticked /\ ~shown.had_input /\ shown.rendered
    /\ shown.since_update # None

\* a tick without input was skipped
C13_WitnessSkipped ==
    /\ Ticked /\ ~shown.had_input /\ ~shown.rendered

\* C14: a tick of a connected session whose last Frame was sent more than
\* minimum_update_interval ago sends a Frame, so that two consecutive Frames are
\* never further apart than the interval and one tick.
C14_HeartbeatFrame ==
    (Ticked /\ shown.since_frame # None
            /\ shown.since_frame[1] > minimum_update_interval) => shown.tick.frame

\* the same for the ticks whose picture has changed
HeartbeatFrameWhenChanged ==
    (Ticked /\ shown.since_frame # None
            /\ shown.since_frame[1] > minimum_update_interval
            /\ shown.since_update # None
            /\ shown.since_update[1] > minimum_update_interval
            /\ shown.tick.shapes # shown.tick.snapshot) => shown.tick.frame

\* C15: on every connection the host sends a Fonts message before any Frame.
C15_FontsFirst ==
    \A a \in Addrs : \A i \in FramesOf(a) :
        sent[a][i].type = "Frame" =>
            \E j \in 1..(i - 1) :
                sent[a][j].type = "Fonts" /\ sent[a][j].conn = sent[a][i].conn

\* C28: a rendered tick whose output has no side effects and whose shapes
\* equal the last-sent snapshot sends no message and leaves the session's
\* frame index and last-sent snapshot as they were.
C28_SuppressedTickSendsNothing ==
    [][ (Ticked' /\ shown'.rendered /\ shown'.tick.output = "default"
                 /\ shown'.tick.shapes = shown'.tick.snapshot) =>
          /\ sent' = sent
          /\ pc' # "write"
          /\ clients'[shown'.addr].frame_index = clients[shown'.addr].frame_index
          /\ clients'[shown'.addr].last_visuals = clients[shown'.addr].last_visuals
      ]_vars

\* a session that has sent a Frame has rendered again and suppressed the Frame
C28_Witness ==
    /\ Ticked /\ shown.rendered /\ ~shown.tick.frame
    /\ shown.tick.shapes = <<"rect">>
    /\ clients[shown.addr].frame_index = 1
    /\ Len(sent[shown.addr]) = 1

\* the step is accept_new_clients handing the session of address a a
\* connection and changing nothing else of it
OnlyAccepted(a) ==
    /\ pc = "idle" /\ pc' = "receive"
    /\ clients'[a].tcp_endpoint # None
    /\ clients'[a] = [clients[a] EXCEPT !.tcp_endpoint = clients'[a].tcp_endpoint]

\* C33: a session without connection handle is left alone: no step of the
\* host or of the network changes any of its fields or sends anything for it,
\* except accept_new_clients handing it a connection of its address; and its
\* tick renders nothing.
C33_IdleWithoutHandle ==
    /\ [][\A a \in DOMAIN clients :
             clients[a].tcp_endpoint = None =>
                 /\ a \in DOMAIN clients'
                 /\ sent'[a] = sent[a]
                 /\ clients'[a] = clients[a] \/ OnlyAccepted(a)]_vars
    /\ [](shown.addr # "" /\ ~shown.connected => ~shown.rendered)

\* C33 witness: a session that has sent a Frame and holds a pending input has
\* lost its connection and has just been ticked.
C33_Witness ==
    /\ shown.addr = "a"
    /\ ~shown.connected
    /\ clients["a"].tcp_endpoint = None
    /\ clients["a"].input # None
    /\ clients["a"].frame_index > 0
    /\ clients["a"].last_update # None

\* the step hands a Frame of the session of address a to a socket that fails
SendFails(a) ==
    \/ /\ Len(sent'[a]) > Len(sent[a])
       /\ sock[a].wr = "broken"
    \/ /\ pc = "write" /\ pc' = "tick"
       /\ writing.addr = a
       /\ sock[a].wr = "broken"

\* C36: the Frames a session makes, sent or not, carry the indices 0, 1, 2, ...
\* in the order they are made, one index per Frame made and none for a
\* suppressed render; a Frame whose send fails has used its index and ends
\* its connection, and a connection that has ended carries no later Frame: so
\* the Frames of one connection that reach the viewer are consecutive in index.
C36_ConsecutiveIndices ==
    /\ [](\A a \in Addrs :
            /\ \A i \in FramesOf(a) : sent[a][i].frame_index = i - 1
            /\ a \in DOMAIN clients => clients[a].frame_index = Len(sent[a])
            /\ \A i, j \in FramesOf(a) : i < j => sent[a][i].conn <= sent[a][j].conn)
    /\ [][\A a \in DOMAIN clients :
             SendFails(a) =>
                 /\ clients'[a].tcp_endpoint = None
                 /\ clients'[a].frame_index = Len(sent'[a])]_vars

\* C36 witness: the session's second Frame, index 1, was handed to a socket
\* that failed: the session is disconnected and its next index is 2.
C36_Witness ==
    /\ shown.addr = "a" /\ shown.connected /\ shown.tick.frame
    /\ clients["a"].tcp_endpoint = None
    /\ Len(sent["a"]) = 2
    /\ sent["a"][2].frame_index = 1
    /\ clients["a"].frame_index = 2

-----------------------------------------------------------------------------
(* Claims about the Inputs of one session, checked under SpecInputs.       *)

\* the last of a sequence, if any
LastOf(q) == IF q = <<>> THEN None ELSE Some(q[Len(q)])

\* C25: a render is handed, in one input, the events of exactly the Inputs the
\* session has received since its previous render, in the order they arrived;
\* and a connected session with such Inputs renders at its next tick.
C25_InputsMergedInOrder ==
    /\ (Ticked /\ shown.rendered) => shown.input = shown.arrived
    /\ (Ticked /\ shown.arrived # <<>>) => shown.rendered

\* a render is handed two Inputs that arrived at different calls of show
C25_Witness ==
    /\ Ticked /\ shown.rendered
    /\ shown.input = <<1, 2>>
    /\ stamp = 2 /\ connects["a"] = 2

\* C26: a Frame carries a client_time exactly when an Input has arrived since
\* the session's previous render, and then that of the last one to arrive.
C26_EchoedClientTime ==
    (Ticked /\ shown.frame) => shown.client_time = LastOf(shown.arrived)

\* a Frame echoes the second of two Inputs
C26_Witness ==
    /\ Ticked /\ shown.frame
    /\ shown.arrived = <<1, 2>>
    /\ shown.client_time = Some(2)

\* a Frame of a tick that no Input caused carries no client_time
C26_WitnessWithout ==
    /\ Ticked /\ shown.frame
    /\ shown.arrived = <<>>
    /\ stamp > 0

\* C27: the tick that follows a render asking for a repaint renders, if the
\* session is connected, however short the time since and without any Input.
C27_RetickRenders ==
    (Ticked /\ shown.retick) => shown.rendered

\* such a tick: no Input since and no time passed since the render before
C27_Witness ==
    /\ Ticked /\ shown.retick /\ shown.rendered
    /\ shown.arrived = <<>>
    /\ shown.since_update = Some(0)

\* the session of address a is about to read a Goodbye: its socket holds one,
\* after Inputs only
GoodbyeWaits(a) ==
    /\ pc = "receive"
    /\ a \in DOMAIN clients
    /\ clients[a].tcp_endpoint # None
    /\ sock[a].rd # "reset"
    /\ Len(LeadingInputs(sock[a].rx)) < Len(sock[a].rx)
    /\ sock[a].rx[Len(LeadingInputs(sock[a].rx)) + 1].type = "Goodbye"

\* the events that wait in a session's input
PendingOf(c) == IF c.input = None THEN <<>> ELSE c.input[1]

\* C32: the call of try_receive in which a session reads a Goodbye leaves the
\* session without connection handle and with an empty last_visuals; what
\* followed the Goodbye on the connection is gone with the socket, unread; the
\* Inputs read before it in the same call wait in input, after what waited
\* already, with the client_time of the last of them; frame_index and the
\* egui context are untouched.
C32_GoodbyeStopsReading ==
    [][\A a \in Unreliable :
          GoodbyeWaits(a) =>
              LET before == LeadingInputs(sock[a].rx)
              IN  /\ clients'[a].tcp_endpoint = None
                  /\ clients'[a].last_visuals = <<>>
                  /\ sock'[a] = NewSock
                  /\ PendingOf(clients'[a]) = PendingOf(clients[a]) \o before
                  /\ (before # <<>> => clients'[a].input # None)
                  /\ clients'[a].client_time =
                        IF before = <<>> THEN clients[a].client_time ELSE LastOf(before)
                  /\ Retained(clients'[a]) = Retained(clients[a])]_vars

\* C32 witness: an Input and then a Goodbye were read in one call: the session
\* has no connection, and the Input waits.
C32_Witness ==
    /\ pc = "tick"
    /\ "a" \in DOMAIN clients
    /\ clients["a"].tcp_endpoint = None
    /\ clients["a"].input = Some(<<1>>)
    /\ clients["a"].client_time = Some(1)

\* C32, second case: a Goodbye and then an Input wait on the connection when
\* the session is about to read.
C32_WitnessAfter ==
    /\ GoodbyeWaits("a")
    /\ Len(sock["a"].rx) = 2
    /\ sock["a"].rx[1].type = "Goodbye"
    /\ sock["a"].rx[2].type = "Input"

\* C37: between the operations of the host (accept, receive pass, the tick of
\* a session) a session that holds a client_time holds an input; and the
\* client_time is only ever taken by a tick of a connected session that has an
\* input to render, never by a tick that is skipped.
C37_TimeOnlyWithInput ==
    /\ [](\A a \in DOMAIN clients :
            clients[a].client_time # None => clients[a].input # None)
    /\ [][\A a \in DOMAIN clients :
             clients[a].client_time # None /\ clients'[a].client_time = None =>
                 /\ pc = "tick"
                 /\ clients[a].tcp_endpoint # None
                 /\ clients[a].input # None
                 /\ shown'.addr = a /\ shown'.rendered]_vars

\* C37 witness: after a receive pass, two Inputs wait in the session with the
\* client_time of the second.
C37_Witness ==
    /\ pc = "tick"
    /\ "a" \in DOMAIN clients
    /\ clients["a"].input = Some(<<1, 2>>)
    /\ clients["a"].client_time = Some(2)

\* C37, second witness: a tick of a connected session that had been sent
\* Inputs before is skipped.
C37_WitnessSkipped ==
    /\ Ticked /\ ~shown.rendered
    /\ stamp > 0
    /\ clients["a"].client_time = None

\* C38: a client_time taken by a render that sent no Frame is gone: no Frame
\* of the session echoes it afterwards.
C38_DiscardedTimeNeverEchoed ==
    (Ticked /\ shown.frame /\ shown.client_time # None) =>
        shown.client_time[1] \notin discarded

\* C38 witness: a render caused by Input 1 sent no Frame, and a Frame has just
\* been sent for Input 2, echoing 2.
C38_Witness ==
    /\ Ticked /\ shown.frame
    /\ discarded = {1}
    /\ shown.client_time = Some(2)

\* C38, second witness: after such a render a Frame is sent that no Input
\* caused; it echoes nothing.
C38_WitnessHeartbeat ==
    /\ Ticked /\ shown.frame
    /\ discarded = {1} /\ stamp = 1
    /\ shown.client_time = None

\* C39: the pending input and the pending client_time of a session outlive its
\* connection. A step that ends or replaces the connection, other than the
\* session's own tick, keeps what was pending (a receive pass may add the
\* Inputs read before the Goodbye); while the session has no handle, and when a
\* connection from its address is accepted, both fields stay as they are; and
\* the tick of a connected session with input pending renders, hands exactly
\* that input to the UI, and a Frame it sends echoes the pending client_time.
C39_PendingSurvivesDisconnect ==
    [][\A a \in Unreliable :
          a \in DOMAIN clients =>
              LET c == clients[a]
                  d == clients'[a]
              IN  /\ (c.tcp_endpoint # d.tcp_endpoint /\ pc # "tick") =>
                         /\ IsPrefix(PendingOf(c), PendingOf(d))
                         /\ (c.input # None => d.input # None)
                         /\ (c.client_time # None => d.client_time # None)
                  /\ ((c.tcp_endpoint = None /\ d.tcp_endpoint = None) \/ pc = "idle") =>
                         /\ d.input = c.input
                         /\ d.client_time = c.client_time
                  /\ (pc = "tick" /\ a \in todo /\ a \notin todo'
                        /\ c.tcp_endpoint # None /\ c.input # None) =>
                         /\ shown'.rendered
                         /\ shown'.input = c.input[1]
                         /\ (shown'.frame => shown'.client_time = c.client_time)]_vars

\* C39 witness: the connection accepted for a session that had none is the
\* second from the address; Input 1, the only one the viewer ever sent, is
\* handed to the UI at the tick and the Frame echoes its client_time.
C39_Witness ==
    /\ Ticked /\ shown.frame
    /\ resumed["a"]
    /\ clients["a"].tcp_endpoint = Some(2)
    /\ stamp = 1
    /\ shown.input = <<1>>
    /\ shown.client_time = Some(1)

\* C39, on the way there: the session has just been given its second
\* connection, nothing has been read from it, and Input 1 waits with its
\* client_time.
C39_WitnessReconnected ==
    /\ pc = "receive"
    /\ resumed["a"]
    /\ clients["a"].tcp_endpoint = Some(2)
    /\ sock["a"] = NewSock
    /\ clients["a"].input = Some(<<1>>)
    /\ clients["a"].client_time = Some(1)

\* the tick the viewer's session is about to take renders: input is pending
\* or the heartbeat is due
RenderDue ==
    /\ pc = "tick" /\ "a" \in todo /\ Connected("a")
    /\ client_show(clients["a"], StillPicture, now, minimum_update_interval).rendered

\* the session of the viewer no longer holds the connection that was closed or
\* broken: it holds none, or one accepted since
LetGo == ~Connected("a") \/ sock["a"].rd = "ok"

\* C40: once the viewer has closed its connection without a Goodbye, the host
\* eventually clears the session's handle of that connection, also when the
\* session keeps rendering and sends nothing (here any write would fail).
C40_SilentCloseEndsSession ==
    ([]<>RenderDue) =>
        ((Connected("a") /\ sock["a"].rd = "eof" /\ sock["a"].wr = "broken")
            ~> LetGo)

\* the same without asking that the session keeps rendering
SilentCloseEndsSession ==
    (Connected("a") /\ sock["a"].rd = "eof" /\ sock["a"].wr = "broken") ~> LetGo

\* the same for a connection that breaks: the next try_receive fails
ResetEndsSession ==
    (Connected("a") /\ sock["a"].rd = "reset") ~> LetGo

\* a closed connection is held only as long as nothing is written to it: a
\* tick of the session that sends a Frame on it ends it
ClosedHeldUntilWrite ==
    [][(pc = "tick" /\ "a" \in todo /\ "a" \notin todo' /\ Connected("a")
          /\ sock["a"].rd = "eof" /\ sock["a"].wr = "broken"
          /\ clients'["a"].frame_index # clients["a"].frame_index)
         => clients'["a"].tcp_endpoint = None]_vars

-----------------------------------------------------------------------------
(* Claims about the sessions of one host next to each other, checked under *)
(* SpecServer.                                                             *)

\* the step clears the connection handle of the session of x
HandleCleared(x) ==
    /\ x \in DOMAIN clients
    /\ clients[x].tcp_endpoint # None
    /\ clients'[x].tcp_endpoint = None

-----------------------------------------------------------------------------
(* Claims about the viewer's worker, checked under SpecClient and, where   *)
(* they say "eventually", under FairSpecClient.                            *)

\* C16: is_connected() is true exactly from connected.store(true) after a
\* successful connect to connected.store(false) after run has returned: false
\* before the first connect, during every connect attempt and backoff, and false
\* again after every exit of the loop before the next connect attempt.
C16_ConnectedFlag ==
    connected = (worker \in {"run", "drain", "send", "retry", "receive", "sleep",
                             "store_false"})

\* the worker attempts to connect again after a decode error ended a connection
C16_Witness ==
    /\ worker = "connect"
    /\ last_exit = "decode"
    /\ ~connected

\* C17: once the host has closed the connection cleanly, the worker eventually
\* reverts the connected flag, whether or not the application sends.
C17_CleanCloseEndsConnection ==
    (tcp_stream.rd = "eof" /\ connected) ~> ~connected

\* the same for a connection that breaks
ResetEndsConnection ==
    (tcp_stream.rd = "reset" /\ connected) ~> ~connected

\* C18: once the Client is dropped, the worker eventually terminates.
C18_WorkerTerminates ==
    (owner # "live") ~> (worker = "exit")

\* the same, unless a write is retried for ever
WorkerTerminatesUnlessSendingForever ==
    (owner # "live") ~> (worker = "exit" \/ <>[](worker \in {"send", "retry"}))

\* the other half of C18: a worker that has seen the shutdown (alive false,
\* or the channel gone) starts no connect attempt
NoConnectAfterShutdownObserved ==
    [][ observed => ~(worker # "connect" /\ worker' = "connect") ]_vars

\* C35: as long as the Client is not dropped its worker has not terminated; a
\* failed connect attempt is followed, after the backoff, by another attempt;
\* and once an established connection is lost, closed or reset by the host,
\* the worker eventually attempts a new connection, unless the Client is
\* dropped first.
C35_WorkerKeepsConnecting ==
    /\ [](alive => worker # "exit")
    /\ (worker = "backoff") ~> (worker = "connect" \/ ~alive)
    /\ (tcp_stream.rd \in {"eof", "reset"}) ~> (worker = "connect" \/ ~alive)

\* what holds of C35: the worker of a live Client never terminates,
WorkerRunsWhileAlive ==
    alive => worker # "exit"

\* it tries again after the backoff,
BackoffThenConnect ==
    (worker = "backoff") ~> (worker = "connect" \/ ~alive)

\* and it reconnects after a reset
ResetThenConnect ==
    (tcp_stream.rd = "reset") ~> (worker = "connect" \/ ~alive)

\* C19: both queues are bounded: neither ever holds as many messages as the
\* application has queued, or the host has sent, however many these are.
C19_QueuesBounded ==
    /\ Len(outgoing_msg) < MaxInputs
    /\ Len(incoming_msg) < MaxHostMsgs

\* the numbers of a sequence of messages
Numbers(q) == [i \in 1..Len(q) |-> q[i].n]
\* n messages numbered consecutively up to last
Consecutive(q, last) == \A i \in 1..Len(q) : q[i] = last - Len(q) + i

\* C20: while a connection is up, what the worker has written is every message
\* it took from the outgoing queue, whole, once and in queue order, and what it
\* has forwarded is every packet it read, once and in the order the host wrote.
C20_ExactlyOnceInOrder ==
    worker \in InLoop =>
        /\ \A i \in 1..Len(wire) : wire[i].whole
        /\ Consecutive(Numbers(wire) \o (IF sending = None THEN <<>> ELSE <<sending[1].n>>)
                            \o Numbers(outgoing_msg), inputs)
        /\ Consecutive(Numbers(forwarded) \o Numbers(tcp_stream.rx), host_msgs)

\* the same for what was written whole
ExactlyOnceInOrderButForFragments ==
    worker \in InLoop =>
        LET written == SelectSeq(wire, LAMBDA w : w.whole)
        IN  /\ Consecutive(Numbers(written) \o (IF sending = None THEN <<>> ELSE <<sending[1].n>>)
                            \o Numbers(outgoing_msg), inputs)
            /\ Consecutive(Numbers(forwarded) \o Numbers(tcp_stream.rx), host_msgs)


(***************************************************************************)
(* C29: bandwidth samples of the worker                                    *)
(***************************************************************************)

\* the step is try_receive_packet returning a packet: the worker stands at the
\* receive statement, the socket has a packet and no error, and the packet
\* leaves the socket (or the socket goes with the connection)
TookPacket ==
    /\ worker = "receive"
    /\ tcp_stream.rd # "reset"
    /\ tcp_stream.rx # <<>>
    /\ \/ worker' = "store_false"
       \/ tcp_stream'.rx = Tail(tcp_stream.rx)

\* C29: the worker adds exactly one sample to bandwidth_history, the byte
\* length of the packet, in every step in which
\* try_receive_packet returns a packet, whether or not the packet decodes; no
\* other step of the viewer changes bandwidth_history.
C29_OneSamplePerPacket ==
    [][bandwidth_history' =
          IF TookPacket
          THEN Append(bandwidth_history, Head(tcp_stream.rx).n)
          ELSE bandwidth_history]_vars

\* C29 witness: one packet was forwarded and one failed to decode, and both
\* have their sample.
C29_Witness ==
    /\ last_exit = "decode"
    /\ Len(forwarded) = 1
    /\ Len(bandwidth_history) = 2


(***************************************************************************)
(* C24: the lock of bandwidth_history                                      *)
(***************************************************************************)

\* C24: whoever holds the lock of bandwidth_history is at a single operation
\* of that History: the worker at its add, the application at the flush of
\* update or at the read of bytes_per_second.  The lock is not held at a read
\* or write of the socket, at a sleep, or at an operation of either queue.
C24_LockOnlyAroundHistory ==
    /\ lock = "worker" => worker = "add"
    /\ lock = "app" => app_at \in {"update_flush", "bytes_read"}
    /\ worker # "add" /\ app_at \notin {"update_flush", "bytes_read"} => lock = "free"

\* C24 witness: the worker holds the lock for its add while the application,
\* in update, waits for it.
C24_Witness ==
    /\ lock = "worker"
    /\ worker = "add"
    /\ app_at = "update_lock"


(***************************************************************************)
(* C22: what update returns                                                *)
(***************************************************************************)

\* the Frame messages of a queue, in order
FramesIn(msgs) == SelectSeq(msgs, LAMBDA msg : msg.type = "Frame")

\* the side-effect outputs of a sequence of Frames, one after the other
RECURSIVE MergedOutputs(_)
MergedOutputs(frames) ==
    IF frames = <<>> THEN <<>> ELSE Head(frames).output \o MergedOutputs(Tail(frames))

\* what a call of update that drains msgs is to return
Drained(msgs) ==
    LET frames == FramesIn(msgs)
    IN  IF frames = <<>> THEN None
        ELSE Some([ frame_index    |-> frames[Len(frames)].n,
                    output         |-> MergedOutputs(frames),
                    clipped_meshes |-> MeshesOf(frames[Len(frames)].n) ])

\* C22: a call of update holds, after its loop, a frame exactly if it drained
\* at least one Frame message (Fonts alone give none), with the frame_index and
\* the meshes of the last Frame drained and the outputs of all of them in
\* order, and nothing of an earlier call; it returns that and keeps nothing, so
\* no frame is handed out twice; no other step touches latest_frame.
C22_UpdateReturnsDrainedFrame ==
    [][IF app_at = "idle" /\ app_at' = "update_lock"
       THEN latest_frame' = Drained(incoming_msg)
       ELSE IF app_at = "update_flush" /\ app_at' = "idle"
       THEN returned' = latest_frame /\ latest_frame' = None
       ELSE latest_frame' = latest_frame /\ returned' = returned]_vars

\* C22 witness: update has returned one frame for two Frames drained in the
\* same call, with the index and meshes of the second and the outputs of both.
C22_Witness ==
    /\ app_at = "idle"
    /\ returned = Some([frame_index |-> 2, output |-> <<1, 2>>, clipped_meshes |-> <<2>>])

\* C22, second witness: update has drained Fonts alone and returned nothing.
C22_WitnessFontsOnly ==
    /\ app_at = "idle"
    /\ font_definitions = 1
    /\ frame_history = <<>>
    /\ host_msgs = 1
    /\ incoming_msg = <<>>
    /\ returned = None


(***************************************************************************)
(* C30: frame-rate and latency samples of update                           *)
(***************************************************************************)

\* the Frames of a queue that echo a client time
EchoesIn(msgs) ==
    SelectSeq(msgs, LAMBDA msg : msg.type = "Frame" /\ msg.client_time # None)

\* C30: the loop of update adds to frame_history one sample per Frame message
\* it drains and none for Fonts, and to latency_history one sample, the time
\* since the echoed client time, per Frame that carries one and none for any
\* other message; no other step adds a sample to either.
C30_SamplesPerFrame ==
    [][IF app_at = "idle" /\ app_at' = "update_lock"
       THEN /\ frame_history' =
                  frame_history \o [i \in 1..Len(FramesIn(incoming_msg)) |-> "frame"]
            /\ latency_history' =
                  latency_history \o
                      [i \in 1..Len(EchoesIn(incoming_msg)) |->
                          clock - EchoesIn(incoming_msg)[i].client_time[1]]
       ELSE /\ frame_history' = frame_history
            /\ latency_history' = latency_history]_vars

\* C30 witness: update has drained a Frame with an echoed client time and one
\* without: two frame-rate samples, one latency sample.
C30_Witness ==
    /\ app_at = "update_lock"
    /\ Len(frame_history) = 2
    /\ Len(latency_history) = 1


(***************************************************************************)
(* C23: a flush before every telemetry read                                *)
(***************************************************************************)

\* C23: whenever a History has just been read (bytes_per_second, latency or
\* adaptive_fps), the latest flush of that same History was made at the
\* current time.
C23_FlushBeforeRead ==
    probe # NoProbe => flushed[probe] = Some(clock)

\* C23 for the two Histories that update does flush, read after an update: it
\* fails as well, once the clock has moved between update and the read.
FlushedHistoriesReadFresh ==
    probe \in {"bandwidth", "latency"} /\ flushed[probe] # None
        => flushed[probe] = Some(clock)

\* what does hold: bandwidth_history and latency_history have been flushed by
\* every call of update that has returned, at the time of that call, and
\* frame_history never.
FlushOnlyInUpdate ==
    /\ flushed["frame"] = None
    /\ flushed["bandwidth"] = flushed["latency"]
    /\ flushed["bandwidth"] # None => flushed["bandwidth"][1] <= clock


(***************************************************************************)
(* C31: what a latency sample measures                                     *)
(***************************************************************************)

\* C31: the latency samples a call of update records are, for the Frames it
\* drains that echo a client time t, the time of the call minus t, in order;
\* t being a stamp the viewer's own clock gave an Input, no sample is negative.
C31_LatencyIsNowMinusStamp ==
    [][(incoming_msg # <<>> /\ incoming_msg' = <<>>) =>
          LET echoes == EchoesIn(incoming_msg)
          IN  /\ Len(latency_history') = Len(latency_history) + Len(echoes)
              /\ \A i \in 1..Len(echoes) :
                    /\ latency_history'[Len(latency_history) + i]
                           = clock - echoes[i].client_time[1]
                    /\ latency_history'[Len(latency_history) + i] >= 0]_vars

\* C31 witness: an Input stamped at second 0 and one stamped at second 1 have
\* both been written, and update at second 1 has recorded the samples 1 and 0
\* for the Frames that echoed them.
C31_Witness ==
    /\ clock = 1
    /\ Len(wire) = 2
    /\ wire[1].client_time = 0 /\ wire[2].client_time = 1
    /\ latency_history = <<1, 0>>

====
